---------------------------- MODULE Spec2Model ----------------------------
(***************************************************************************)
(* Combination Aggregator of the restaurant dashboards:                    *)
(*   - Cuisine-Pair Miner  ("task2 l2.py"): tag normalisation, pair        *)
(*     enumeration, frequency and rating tallies, the two rankings;        *)
(*   - Chain Detector      ("task4 l2.py"): name normalisation, grouping   *)
(*     by exact name, the minimum-locations filter, the chain table.       *)
(* Text is modelled as a sequence of one-character strings, so that        *)
(* strip, title, split, string order and label formatting are computed.    *)
(* Ratings are integers (tenths of a point); an average is kept as the     *)
(* pair sum/count and compared by cross-multiplication.                    *)
(***************************************************************************)
EXTENDS Integers, Sequences, FiniteSets, TLC

(***************************************************************************)
(* Bounds of the model.                                                    *)
(***************************************************************************)
\* rows of an uploaded dataset drawn from the core row templates
MaxRows == 5
\* rows of an uploaded dataset drawn from all row templates (irregular rows)
MaxOddRows == 2
\* rows of an uploaded dataset drawn from the six-cuisine row templates
MaxCutoffRows == 6
\* restaurants of a dataset uploaded to the Chain Detector
MaxRestaurants == 5
\* restaurants of a dataset with optional columns uploaded to the Chain Detector
MaxChainRows == 4
\* restaurants of a dataset in which all restaurants have one name
MaxOneChainRows == 5
\* rows of a table whose tags hold " + " or are cut by stray commas
MaxSeparatorRows == 3
\* rows of a table of the Top 3 Cuisines page
MaxCuisineRows == 3

(***************************************************************************)
(* Characters and Python's str operations.                                 *)
(***************************************************************************)
LowerLetters == <<"a", "b", "c", "d", "e", "f">>
UpperLetters == <<"A", "B", "C", "D", "E", "F">>

IndexIn(c, letters) ==
    IF \E i \in 1..Len(letters) : letters[i] = c
    THEN CHOOSE i \in 1..Len(letters) : letters[i] = c
    ELSE 0

IsLower(c) == IndexIn(c, LowerLetters) > 0
IsUpper(c) == IndexIn(c, UpperLetters) > 0
IsCased(c) == IsLower(c) \/ IsUpper(c)
ToUpper(c) == IF IsLower(c) THEN UpperLetters[IndexIn(c, LowerLetters)] ELSE c
ToLower(c) == IF IsUpper(c) THEN LowerLetters[IndexIn(c, UpperLetters)] ELSE c
IsSpace(c) == c = " "

\* code point of a character: Python orders str values by code point
Ord(c) ==
    CASE c = " " -> 32
      [] c = "'" -> 39
      [] c = "+" -> 43
      [] c = "," -> 44
      [] c = "1" -> 49
      [] c = "[" -> 91
      [] c = "]" -> 93
      [] IsUpper(c) -> 64 + IndexIn(c, UpperLetters)
      [] IsLower(c) -> 96 + IndexIn(c, LowerLetters)
      [] OTHER -> 0

\* s < t for str values
RECURSIVE StrLess(_, _)
StrLess(s, t) ==
    IF t = <<>> THEN FALSE
    ELSE IF s = <<>> THEN TRUE
    ELSE IF Ord(Head(s)) # Ord(Head(t)) THEN Ord(Head(s)) < Ord(Head(t))
    ELSE StrLess(Tail(s), Tail(t))

StrLessEq(s, t) == s = t \/ StrLess(s, t)

\* str.lstrip(), str.rstrip(), str.strip()
RECURSIVE LStrip(_)
LStrip(s) ==
    IF s # <<>> /\ IsSpace(Head(s)) THEN LStrip(Tail(s)) ELSE s

RECURSIVE RStrip(_)
RStrip(s) ==
    IF s # <<>> /\ IsSpace(s[Len(s)]) THEN RStrip(SubSeq(s, 1, Len(s) - 1)) ELSE s

Strip(s) == RStrip(LStrip(s))

\* str.title(): a cased character is upper-cased when the character before it
\* is not cased, and lower-cased otherwise
Title(s) ==
    [i \in 1..Len(s) |->
        IF i > 1 /\ IsCased(s[i - 1]) THEN ToLower(s[i]) ELSE ToUpper(s[i])]

\* str.split(sep) for a one-character separator
RECURSIVE SplitFrom(_, _, _)
SplitFrom(s, sep, cur) ==
    IF s = <<>> THEN <<cur>>
    ELSE IF Head(s) = sep THEN <<cur>> \o SplitFrom(Tail(s), sep, <<>>)
    ELSE SplitFrom(Tail(s), sep, Append(cur, Head(s)))

Split(s, sep) == SplitFrom(s, sep, <<>>)

\* sep.join(parts)
RECURSIVE Join(_, _)
Join(parts, sep) ==
    IF parts = <<>> THEN <<>>
    ELSE IF Len(parts) = 1 THEN parts[1]
    ELSE parts[1] \o <<sep>> \o Join(Tail(parts), sep)


(***************************************************************************)
(* Cell values of a loaded table: a missing value (NaN), a text, a number. *)
(***************************************************************************)
NaN == [kind |-> "nan", s |-> <<>>, n |-> 0]
Text(s) == [kind |-> "str", s |-> s, n |-> 0]
Num(n) == [kind |-> "num", s |-> <<>>, n |-> n]
IsNa(v) == v.kind = "nan"

\* the columns the Cuisine-Pair Miner requires
required_cols == {"Cuisines", "Aggregate rating"}

\* a row of the restaurant table of the Cuisine-Pair Miner
Row(cuisines, rating) ==
    [col \in required_cols |-> IF col = "Cuisines" THEN cuisines ELSE rating]

(***************************************************************************)
(* Cuisine-Pair Miner: the Tag Normalizer.                                 *)
(***************************************************************************)
\* ast.literal_eval on a text that starts with "[": a list display of quoted
\* texts and digits.  ok = FALSE stands for the SyntaxError / ValueError.
RECURSIVE ReadQuoted(_, _)
ReadQuoted(s, cur) ==
    IF s = <<>> THEN [ok |-> FALSE, item |-> cur, rest |-> <<>>]
    ELSE IF Head(s) = "'" THEN [ok |-> TRUE, item |-> cur, rest |-> Tail(s)]
    ELSE ReadQuoted(Tail(s), Append(cur, Head(s)))

RECURSIVE ParseItems(_, _, _)
ParseItems(s, items, needItem) ==
    LET t == LStrip(s) IN
    IF t = <<>> THEN [ok |-> FALSE, items |-> items]
    ELSE IF Head(t) = "]"
         THEN [ok |-> LStrip(Tail(t)) = <<>>, items |-> items]
    ELSE IF ~needItem
         THEN IF Head(t) = "," THEN ParseItems(Tail(t), items, TRUE)
              ELSE [ok |-> FALSE, items |-> items]
    ELSE IF Head(t) = "'"
         THEN LET q == ReadQuoted(Tail(t), <<>>) IN
              IF q.ok THEN ParseItems(q.rest, Append(items, Text(q.item)), FALSE)
              ELSE [ok |-> FALSE, items |-> items]
    ELSE IF Head(t) = "1"
         THEN ParseItems(Tail(t), Append(items, Num(1)), FALSE)
    ELSE [ok |-> FALSE, items |-> items]

LiteralEval(s) == ParseItems(Tail(s), <<>>, TRUE)

\* CleanTag without .title()
CleanTag_stripOnly(s) == Strip(s)

\* cuisine.strip().title()
CleanTag(s) == Title(Strip(s))

\* process_cuisines: raised = TRUE when the call lets an exception escape
\* (the handler of the bare except calls .strip() on a value that has none)
process_cuisines(v) ==
    IF IsNa(v) THEN [raised |-> FALSE, list |-> <<>>]
    ELSE IF v.kind = "str"
    THEN IF v.s # <<>> /\ Head(v.s) = "["
         THEN LET r == LiteralEval(v.s) IN
              IF r.ok /\ \A i \in 1..Len(r.items) : r.items[i].kind = "str"
              THEN [raised |-> FALSE,
                    list |-> [i \in 1..Len(r.items) |-> CleanTag(r.items[i].s)]]
              ELSE [raised |-> FALSE, list |-> <<CleanTag(v.s)>>]
         ELSE LET parts == Split(v.s, ",") IN
              [raised |-> FALSE,
               list |-> [i \in 1..Len(parts) |-> CleanTag(parts[i])]]
    ELSE [raised |-> TRUE, list |-> <<>>]

(***************************************************************************)
(* Cuisine-Pair Miner: pair enumeration and tallies.                       *)
(***************************************************************************)
\* sorted(cuisines)
RECURSIVE InsertSorted(_, _)
InsertSorted(sorted, x) ==
    IF sorted = <<>> THEN <<x>>
    ELSE IF StrLess(x, Head(sorted)) THEN <<x>> \o sorted
    ELSE <<Head(sorted)>> \o InsertSorted(Tail(sorted), x)

\* SortTags without the sort: the tags in the order of the record
SortTags_unsorted(tags) == tags

RECURSIVE SortTags(_)
SortTags(tags) ==
    IF tags = <<>> THEN <<>>
    ELSE InsertSorted(SortTags(SubSeq(tags, 1, Len(tags) - 1)), tags[Len(tags)])

\* itertools.combinations(s, 2): the pairs of positions i < j, in order
RECURSIVE Combinations2(_)
Combinations2(s) ==
    IF Len(s) < 2 THEN <<>>
    ELSE [j \in 1..(Len(s) - 1) |-> <<s[1], s[j + 1]>>] \o Combinations2(Tail(s))

\* the combinations one restaurant adds (both loops)
RowCombos(cuisines) ==
    IF Len(cuisines) >= 2 THEN Combinations2(SortTags(cuisines)) ELSE <<>>

\* f"{combo[0]} + {combo[1]}"
ComboLabel(combo) == combo[1] \o <<" ", "+", " ">> \o combo[2]

\* Counter(all_combinations): counts in order of first occurrence
RECURSIVE CounterAdd(_, _)
CounterAdd(entries, key) ==
    IF entries = <<>> THEN <<[key |-> key, count |-> 1]>>
    ELSE IF Head(entries).key = key
         THEN <<[key |-> key, count |-> Head(entries).count + 1]>> \o Tail(entries)
    ELSE <<Head(entries)>> \o CounterAdd(Tail(entries), key)

RECURSIVE Counter(_)
Counter(items) ==
    IF items = <<>> THEN <<>>
    ELSE CounterAdd(Counter(SubSeq(items, 1, Len(items) - 1)), items[Len(items)])

\* a sort key: the value num/den (a count is count/1, an average is sum/len)
KeyGreater(a, b) == a.num * b.den > b.num * a.den
KeyEqual(a, b) == a.num * b.den = b.num * a.den

\* sorted(..., reverse=True) and heapq.nlargest: descending and stable
\* InsertDesc that puts an entry before the entries of equal key
RECURSIVE InsertDesc_lastwins(_, _)
InsertDesc_lastwins(sorted, e) ==
    IF sorted = <<>> THEN <<e>>
    ELSE IF ~KeyGreater(Head(sorted).sortkey, e.sortkey) THEN <<e>> \o sorted
    ELSE <<Head(sorted)>> \o InsertDesc_lastwins(Tail(sorted), e)

RECURSIVE InsertDesc(_, _)
InsertDesc(sorted, e) ==
    IF sorted = <<>> THEN <<e>>
    ELSE IF KeyGreater(e.sortkey, Head(sorted).sortkey) THEN <<e>> \o sorted
    ELSE <<Head(sorted)>> \o InsertDesc(Tail(sorted), e)

RECURSIVE SortDesc(_)
SortDesc(entries) ==
    IF entries = <<>> THEN <<>>
    ELSE InsertDesc(SortDesc(SubSeq(entries, 1, Len(entries) - 1)),
                    entries[Len(entries)])

Take(s, n) == SubSeq(s, 1, IF Len(s) < n THEN Len(s) ELSE n)

\* the number of rows of each ranking
TopN == 10

\* MostCommon that cuts the counter at 10 keys before it sorts them
MostCommon_cutFirst(counter) ==
    LET keyed == [i \in 1..Len(counter) |->
                    [key |-> counter[i].key, count |-> counter[i].count,
                     sortkey |-> [num |-> counter[i].count, den |-> 1]]]
        top == SortDesc(Take(keyed, TopN))
    IN [i \in 1..Len(top) |-> [key |-> top[i].key, count |-> top[i].count]]

\* combo_counter.most_common(10)
MostCommon(counter) ==
    LET keyed == [i \in 1..Len(counter) |->
                    [key |-> counter[i].key, count |-> counter[i].count,
                     sortkey |-> [num |-> counter[i].count, den |-> 1]]]
        top == Take(SortDesc(keyed), TopN)
    IN [i \in 1..Len(top) |-> [key |-> top[i].key, count |-> top[i].count]]

\* combo_ratings / combo_counts: one entry per label, in order of first
\* occurrence, with the ratings appended and the count incremented
RECURSIVE RatingsAdd(_, _, _)
RatingsAdd(entries, label, rating) ==
    IF entries = <<>>
    THEN <<[key |-> label, ratings |-> <<rating>>, count |-> 1]>>
    ELSE IF Head(entries).key = label
         THEN <<[key |-> label,
                 ratings |-> Append(Head(entries).ratings, rating),
                 count |-> Head(entries).count + 1]>> \o Tail(entries)
    ELSE <<Head(entries)>> \o RatingsAdd(Tail(entries), label, rating)

RECURSIVE RatingsAddAll(_, _, _)
RatingsAddAll(entries, combos, rating) ==
    IF combos = <<>> THEN entries
    ELSE RatingsAddAll(RatingsAdd(entries, ComboLabel(Head(combos)), rating),
                       Tail(combos), rating)

RECURSIVE SumSeq(_)
SumSeq(s) == IF s = <<>> THEN 0 ELSE Head(s) + SumSeq(Tail(s))

\* np.mean(v)
Mean(ratings) == [num |-> SumSeq(ratings), den |-> Len(ratings)]

\* the minimum number of ratings of a combination in the rating ranking
MinSupport == 5

RECURSIVE FilterSeq(_, _)
FilterSeq(s, keep) ==
    IF s = <<>> THEN <<>>
    ELSE IF Head(s) \in keep THEN <<Head(s)>> \o FilterSeq(Tail(s), keep)
    ELSE FilterSeq(Tail(s), keep)

\* valid_combos = {k: v for k, v in combo_ratings.items() if len(v) >= 5}
ValidCombos(ratingsMap) ==
    FilterSeq(ratingsMap,
              {ratingsMap[i] : i \in {j \in 1..Len(ratingsMap) :
                                        Len(ratingsMap[j].ratings) >= MinSupport}})

\* rating_data: sorted(avg_ratings.items(), key=..., reverse=True)[:10]
RatingData(valid) ==
    LET keyed == [i \in 1..Len(valid) |->
                    [key |-> valid[i].key, count |-> valid[i].count,
                     sortkey |-> Mean(valid[i].ratings)]]
        top == Take(SortDesc(keyed), TopN)
    IN [i \in 1..Len(top) |->
          [Combination |-> top[i].key, AverageRating |-> top[i].sortkey,
           NumberOfRestaurants |-> top[i].count]]


(***************************************************************************)
(* Uploaded datasets.                                                      *)
(***************************************************************************)
\* rows with a comma-separated Cuisines text and a rating
CoreRows ==
    { Row(Text(<<"b", ",", " ", "A">>), Num(40)),
      Row(Text(<<"a", ",", "b", ",", "a">>), Num(20)),
      Row(Text(<<"c", ",", "c">>), Num(30)),
      Row(Text(<<"a", ",", "c">>), Num(50)),
      Row(Text(<<"c">>), Num(10)) }

\* rows with six cuisines (fifteen combinations) and rows that share some
CutoffRows ==
    { Row(Text(<<"a", ",", "b", ",", "c", ",", "d", ",", "e", ",", "f">>), Num(40)),
      Row(Text(<<"f", ",", "e">>), Num(50)),
      Row(Text(<<"b", ",", "a">>), Num(10)),
      Row(Text(<<"d">>), Num(30)) }

\* rows whose tags contain " + ", and rows with a trailing or doubled comma
SeparatorRows ==
    { Row(Text(<<"a", " ", "+", " ", "b", ",", "c">>), Num(40)),
      Row(Text(<<"a", ",", "b", " ", "+", " ", "c">>), Num(20)),
      Row(Text(<<"a", ",", " ">>), Num(30)),
      Row(Text(<<"a", ",", ",", "b">>), Num(50)),
      Row(Text(<<"c">>), Num(10)) }

\* rows with a missing value, a list display, a number in the Cuisines column
OddRows ==
    { Row(NaN, Num(30)),
      Row(Text(<<"a", ",", "b">>), NaN),
      Row(Num(1), Num(30)),
      Row(Text(<<"[", "]">>), Num(30)),
      Row(Text(<<"a", ",", "[", "b">>), Num(20)),
      Row(Text(<<"[", "'", "a", "'", ",", " ", "'", "b", "'", "]">>), Num(40)) }

SeqsUpTo(S, n) == UNION {[1..k -> S] : k \in 0..n}

\* tables that lack a required column
MissingColumnTables ==
    { [columns |-> cols, rows |-> <<[col \in cols |-> Text(<<"a", ",", "b">>)]>>] :
        cols \in {{"Cuisines"}, {"Aggregate rating"}, {}} }

\* pd.read_csv gives a column one type: numbers (and NaN) when every value
\* it holds reads as a number, texts (and NaN) otherwise
ColumnTyped(rows, col) ==
    (\E i \in 1..Len(rows) : rows[i][col].kind = "num")
    => \A i \in 1..Len(rows) : rows[i][col].kind \in {"num", "nan"}

Tables(rows, maxRows) ==
    { [columns |-> required_cols, rows |-> r] :
        r \in {q \in SeqsUpTo(rows, maxRows) \cup SeqsUpTo(rows \cup OddRows, MaxOddRows) :
                  ColumnTyped(q, "Cuisines")} }
    \cup MissingColumnTables

(***************************************************************************)
(* State.                                                                  *)
(***************************************************************************)
VARIABLES
    pc,                \* position of the running script
    messages,          \* st.error / st.warning / st.info boxes shown
    df,                \* the loaded table (Cuisine-Pair Miner)
    df_clean,          \* the cleaned copy
    idx,               \* position of the running loop in df_clean
    all_combinations,  \* list of the combinations of all restaurants
    combo_counter,     \* Counter(all_combinations)
    top_combinations,  \* combo_counter.most_common(10)
    combo_ratings,     \* combo_ratings and combo_counts, by label
    valid_combos,      \* the labels with at least 5 ratings
    rating_data,       \* rows of the rating ranking
    best_combo,        \* "Highest Rated Combination" (a sequence of 0 or 1)
    worst_combo,       \* "Lowest Rated Combination" (a sequence of 0 or 1)
    chain_df,          \* the loaded table (Chain Detector)
    chain_df_clean,    \* its cleaned copy, with 'Restaurant Name Cleaned'
    chain_candidates,  \* value_counts() of the cleaned names
    potential_chains,  \* the names that occur more than once
    min_locations,     \* slider "Minimum locations to be considered a chain"
    min_name_similarity, \* slider "Minimum name similarity score" (percent)
    confirmed_chains,  \* the potential chains with enough locations
    chains_df,         \* the chain table, one row per confirmed chain
    top_chains_by_locations, \* chains_df.nlargest(15, 'Location Count')
    top_rated_chains,  \* rating_chains.nlargest(10, 'Average Rating')
    popular_chains,    \* popularity_chains.nlargest(10, 'Total Votes')
    efficient_chains,  \* popularity_chains.nlargest(10, 'Votes per Location')
    widespread_chains, \* chains_df.nlargest(10, 'Cities Covered')
    diverse_chains,    \* chains_df.nlargest(10, 'City Diversity')
    export_offered,    \* the download button of the chain table is on the page
    market_leader,     \* the "Market Leader" insight (a sequence of 0 or 1)
    cuisine_df,        \* the loaded table (Top 3 Cuisines)
    cuisine_counts,    \* value_counts() of the exploded Cuisines column
    result             \* rows of the top-3 table

minerVars == <<df, df_clean, idx, all_combinations, combo_counter,
               top_combinations, combo_ratings, valid_combos, rating_data,
               best_combo, worst_combo>>

rankVars == <<top_chains_by_locations, top_rated_chains, popular_chains,
              efficient_chains, widespread_chains, diverse_chains>>

chainVars == <<chain_df, chain_df_clean, chain_candidates, potential_chains,
               min_locations, min_name_similarity, confirmed_chains, chains_df,
               rankVars, export_offered, market_leader>>

cuisineVars == <<cuisine_df, cuisine_counts, result>>

vars == <<pc, messages, minerVars, chainVars, cuisineVars>>

\* the sliders' value= arguments
DefaultMinLocations == 3
DefaultSimilarity == 90

\* no ranking is built
NoRankings ==
    /\ top_chains_by_locations = <<>>
    /\ top_rated_chains = <<>>
    /\ popular_chains = <<>>
    /\ efficient_chains = <<>>
    /\ widespread_chains = <<>>
    /\ diverse_chains = <<>>

ChainIdle ==
    /\ chain_df = [columns |-> {}, rows |-> <<>>]
    /\ chain_df_clean = <<>>
    /\ chain_candidates = <<>>
    /\ potential_chains = <<>>
    /\ min_locations = DefaultMinLocations
    /\ min_name_similarity = DefaultSimilarity
    /\ confirmed_chains = <<>>
    /\ chains_df = <<>>
    /\ NoRankings
    /\ export_offered = FALSE
    /\ market_leader = <<>>

\* the Top 3 Cuisines page is not in use
CuisineIdle ==
    /\ cuisine_df = [columns |-> {}, rows |-> <<>>]
    /\ cuisine_counts = <<>>
    /\ result = <<>>

MinerInit(tables) ==
    /\ ChainIdle
    /\ CuisineIdle
    /\ pc = "start"
    /\ messages = {}
    /\ df \in tables
    /\ df_clean = <<>>
    /\ idx = 0
    /\ all_combinations = <<>>
    /\ combo_counter = <<>>
    /\ top_combinations = <<>>
    /\ combo_ratings = <<>>
    /\ valid_combos = <<>>
    /\ rating_data = <<>>
    /\ best_combo = <<>>
    /\ worst_combo = <<>>

(***************************************************************************)
(* Cuisine-Pair Miner: the script, step by step.                           *)
(***************************************************************************)
\* the except Exception of the script: the error box, nothing more is run
ProcessingError ==
    /\ messages' = messages \cup {"error_processing_file"}
    /\ pc' = "done"

\* required_cols check
CheckColumns ==
    /\ pc = "start"
    /\ \/ /\ required_cols \subseteq df.columns
          /\ pc' = "clean"
          /\ messages' = messages
       \/ /\ ~(required_cols \subseteq df.columns)
          /\ messages' = messages \cup {"error_missing_columns"}
          /\ pc' = "done"
    /\ UNCHANGED minerVars
    /\ UNCHANGED <<chainVars, cuisineVars>>

\* df.dropna(subset=['Cuisines', 'Aggregate rating'])
DropNa(rows) ==
    FilterSeq(rows, {rows[i] : i \in {j \in 1..Len(rows) :
                        ~IsNa(rows[j]["Cuisines"]) /\ ~IsNa(rows[j]["Aggregate rating"])}})

\* Clean with df.dropna(subset=required_cols, inplace=True): the rows are
\* dropped from the loaded table itself
Clean_inplace ==
    /\ pc = "clean"
    /\ df' = [df EXCEPT !.rows = DropNa(df.rows)]
    /\ df_clean' = DropNa(df.rows)
    /\ \/ /\ Len(df.rows) = 0
          /\ ProcessingError
       \/ /\ Len(df.rows) # 0
          /\ Len(DropNa(df.rows)) = 0
          /\ messages' = messages \cup {"error_no_valid_data"}
          /\ pc' = "stopped"
       \/ /\ Len(df.rows) # 0
          /\ Len(DropNa(df.rows)) # 0
          /\ messages' = messages
          /\ pc' = "process"
    /\ UNCHANGED <<idx, all_combinations, combo_counter, top_combinations,
                   combo_ratings, valid_combos, rating_data, best_combo, worst_combo>>
    /\ UNCHANGED <<chainVars, cuisineVars>>

\* cleaning, the "Data Loss" metric (a division by initial_count), and the
\* cleaned_count == 0 stop
Clean ==
    /\ pc = "clean"
    /\ df_clean' = DropNa(df.rows)
    /\ \/ /\ Len(df.rows) = 0
          /\ ProcessingError
       \/ /\ Len(df.rows) # 0
          /\ Len(DropNa(df.rows)) = 0
          /\ messages' = messages \cup {"error_no_valid_data"}
          /\ pc' = "stopped"
       \/ /\ Len(df.rows) # 0
          /\ Len(DropNa(df.rows)) # 0
          /\ messages' = messages
          /\ pc' = "process"
    /\ UNCHANGED <<df, idx, all_combinations, combo_counter, top_combinations,
                   combo_ratings, valid_combos, rating_data, best_combo, worst_combo>>
    /\ UNCHANGED <<chainVars, cuisineVars>>

\* a cleaned row with its Cuisine_List and Num_Cuisines columns
WithCuisineList(row) ==
    LET list == process_cuisines(row["Cuisines"]).list IN
    [col \in required_cols \cup {"Cuisine_List", "Num_Cuisines"} |->
        IF col = "Cuisine_List" THEN list
        ELSE IF col = "Num_Cuisines" THEN Len(list)
        ELSE row[col]]

\* ApplyProcess without the Num_Cuisines > 0 filter
ApplyProcess_unfiltered(rows) ==
    [i \in 1..Len(rows) |-> WithCuisineList(rows[i])]

\* df_clean['Cuisine_List'], df_clean['Num_Cuisines'], the Num_Cuisines > 0 filter
ApplyProcess(rows) ==
    LET listed == [i \in 1..Len(rows) |-> WithCuisineList(rows[i])] IN
    FilterSeq(listed, {listed[i] : i \in {j \in 1..Len(listed) :
                                            listed[j]["Num_Cuisines"] > 0}})

Process ==
    /\ pc = "process"
    /\ \/ /\ \E i \in 1..Len(df_clean) : process_cuisines(df_clean[i]["Cuisines"]).raised
          /\ ProcessingError
          /\ UNCHANGED <<df_clean, idx>>
       \/ /\ \A i \in 1..Len(df_clean) : ~process_cuisines(df_clean[i]["Cuisines"]).raised
          /\ df_clean' = ApplyProcess(df_clean)
          /\ idx' = 1
          /\ pc' = "count"
          /\ messages' = messages
    /\ UNCHANGED <<df, all_combinations, combo_counter, top_combinations,
                   combo_ratings, valid_combos, rating_data, best_combo, worst_combo>>
    /\ UNCHANGED <<chainVars, cuisineVars>>

\* one pass of "for cuisines in df_clean['Cuisine_List']"
CountRow ==
    /\ pc = "count"
    /\ idx <= Len(df_clean)
    /\ all_combinations' = all_combinations \o RowCombos(df_clean[idx]["Cuisine_List"])
    /\ idx' = idx + 1
    /\ UNCHANGED <<pc, messages, df, df_clean, combo_counter, top_combinations,
                   combo_ratings, valid_combos, rating_data, best_combo, worst_combo>>
    /\ UNCHANGED <<chainVars, cuisineVars>>

\* CountDone without the info box of the empty ranking
CountDone_silent ==
    /\ pc = "count"
    /\ idx > Len(df_clean)
    /\ combo_counter' = Counter(all_combinations)
    /\ top_combinations' = MostCommon(Counter(all_combinations))
    /\ messages' = messages
    /\ idx' = 1
    /\ pc' = "rate"
    /\ UNCHANGED <<df, df_clean, all_combinations, combo_ratings, valid_combos,
                   rating_data, best_combo, worst_combo>>
    /\ UNCHANGED <<chainVars, cuisineVars>>

\* combo_counter, top_combinations and the table or the info box
CountDone ==
    /\ pc = "count"
    /\ idx > Len(df_clean)
    /\ combo_counter' = Counter(all_combinations)
    /\ top_combinations' = MostCommon(Counter(all_combinations))
    /\ messages' = IF all_combinations = <<>>
                   THEN messages \cup {"info_no_combinations"}
                   ELSE messages
    /\ idx' = 1
    /\ pc' = "rate"
    /\ UNCHANGED <<df, df_clean, all_combinations, combo_ratings, valid_combos,
                   rating_data, best_combo, worst_combo>>
    /\ UNCHANGED <<chainVars, cuisineVars>>

\* one pass of "for idx, row in df_clean.iterrows()"
RateRow ==
    /\ pc = "rate"
    /\ idx <= Len(df_clean)
    /\ combo_ratings' = RatingsAddAll(combo_ratings,
                                      RowCombos(df_clean[idx]["Cuisine_List"]),
                                      df_clean[idx]["Aggregate rating"].n)
    /\ idx' = idx + 1
    /\ UNCHANGED <<pc, messages, df, df_clean, all_combinations, combo_counter,
                   top_combinations, valid_combos, rating_data, best_combo, worst_combo>>
    /\ UNCHANGED <<chainVars, cuisineVars>>

\* valid_combos, rating_data and the table or the info box
RateDone ==
    /\ pc = "rate"
    /\ idx > Len(df_clean)
    /\ valid_combos' = ValidCombos(combo_ratings)
    /\ rating_data' = RatingData(ValidCombos(combo_ratings))
    /\ messages' = IF ValidCombos(combo_ratings) = <<>>
                   THEN messages \cup {"info_not_enough_rating_data"}
                   ELSE messages
    /\ pc' = "insights"
    /\ UNCHANGED <<df, df_clean, idx, all_combinations, combo_counter,
                   top_combinations, combo_ratings, best_combo, worst_combo>>
    /\ UNCHANGED <<chainVars, cuisineVars>>

\* MaxByMean that takes the last entry with the largest mean
RECURSIVE MaxByMean_lastwins(_, _)
MaxByMean_lastwins(entries, best) ==
    IF entries = <<>> THEN best
    ELSE IF ~KeyGreater(Mean(best.ratings), Mean(Head(entries).ratings))
         THEN MaxByMean_lastwins(Tail(entries), Head(entries))
    ELSE MaxByMean_lastwins(Tail(entries), best)

\* max(valid_combos.items(), key=mean): the first entry with the largest mean
RECURSIVE MaxByMean(_, _)
MaxByMean(entries, best) ==
    IF entries = <<>> THEN best
    ELSE IF KeyGreater(Mean(Head(entries).ratings), Mean(best.ratings))
         THEN MaxByMean(Tail(entries), Head(entries))
    ELSE MaxByMean(Tail(entries), best)

\* min(valid_combos.items(), key=mean): the first entry with the smallest mean
RECURSIVE MinByMean(_, _)
MinByMean(entries, best) ==
    IF entries = <<>> THEN best
    ELSE IF KeyGreater(Mean(best.ratings), Mean(Head(entries).ratings))
         THEN MinByMean(Tail(entries), Head(entries))
    ELSE MinByMean(Tail(entries), best)

\* the trend line (np.polyfit needs a non-empty table), the "Key Insights",
\* and the most popular single cuisine (value_counts().index[0])
Insights ==
    /\ pc = "insights"
    /\ \/ /\ Len(df_clean) = 0
          /\ ProcessingError
          /\ UNCHANGED <<best_combo, worst_combo>>
       \/ /\ Len(df_clean) # 0
          /\ best_combo' = IF valid_combos = <<>> THEN <<>>
                           ELSE <<MaxByMean(Tail(valid_combos), Head(valid_combos))>>
          /\ worst_combo' = IF valid_combos = <<>> THEN <<>>
                            ELSE <<MinByMean(Tail(valid_combos), Head(valid_combos))>>
          /\ \/ /\ \A i \in 1..Len(df_clean) : df_clean[i]["Num_Cuisines"] # 1
                /\ ProcessingError
             \/ /\ \E i \in 1..Len(df_clean) : df_clean[i]["Num_Cuisines"] = 1
                /\ messages' = messages
                /\ pc' = "done"
    /\ UNCHANGED <<df, df_clean, idx, all_combinations, combo_counter,
                   top_combinations, combo_ratings, valid_combos, rating_data>>
    /\ UNCHANGED <<chainVars, cuisineVars>>

MinerNext ==
    \/ CheckColumns
    \/ Clean
    \/ Process
    \/ CountRow
    \/ CountDone
    \/ RateRow
    \/ RateDone
    \/ Insights

Init == MinerInit(Tables(CoreRows, MaxRows))
Next == MinerNext
Spec == Init /\ [][Next]_vars

CutoffInit == MinerInit(Tables(CutoffRows, MaxCutoffRows))
CutoffSpec == CutoffInit /\ [][Next]_vars

SeparatorInit == MinerInit(Tables(SeparatorRows, MaxSeparatorRows))
SeparatorSpec == SeparatorInit /\ [][Next]_vars


(***************************************************************************)
(* Chain Detector: uploaded tables.                                        *)
(***************************************************************************)
NameRow(name) == [col \in {"Restaurant Name"} |-> name]

\* restaurants whose names differ in case, in surrounding and inner spaces,
\* and in a letter
CoreNames ==
    { NameRow(Text(<<"a", "b">>)),
      NameRow(Text(<<" ", "a", "B", " ">>)),
      NameRow(Text(<<"a", " ", "b">>)),
      NameRow(Text(<<"a", "c">>)) }

\* a missing name, a name that reads as a number
OddNames == { NameRow(NaN), NameRow(Num(1)) }

ChainTables ==
    { [columns |-> {"Restaurant Name"}, rows |-> r] :
        r \in {q \in SeqsUpTo(CoreNames, MaxRestaurants)
                     \cup SeqsUpTo(CoreNames \cup OddNames, MaxOddRows) :
                  ColumnTyped(q, "Restaurant Name")} }
    \cup { [columns |-> {}, rows |-> <<[col \in {} |-> NaN]>>] }

(***************************************************************************)
(* Chain Detector: cleaning, grouping, filter, chain table.                *)
(***************************************************************************)
\* df.dropna(subset=['Restaurant Name'])
DropNaName(rows) ==
    FilterSeq(rows, {rows[i] : i \in {j \in 1..Len(rows) :
                                        ~IsNa(rows[j]["Restaurant Name"])}})

\* CleanName without .str.title()
CleanName_stripOnly(v) == IF v.kind = "str" THEN Text(Strip(v.s)) ELSE NaN

\* .str.strip().str.title() of one name (NaN for a value that is no text)
CleanName(v) == IF v.kind = "str" THEN Text(Title(Strip(v.s))) ELSE NaN

\* the .str accessor raises AttributeError on a column that holds no text
\* (a column of numbers or of missing values only)
StrAccessorRaises(rows) ==
    /\ Len(rows) > 0
    /\ \A i \in 1..Len(rows) : rows[i]["Restaurant Name"].kind # "str"

\* df_clean with its 'Restaurant Name Cleaned' column
WithCleanedName(rows) ==
    [i \in 1..Len(rows) |->
        [col \in DOMAIN rows[i] \cup {"Restaurant Name Cleaned"} |->
            IF col = "Restaurant Name Cleaned"
            THEN CleanName(rows[i]["Restaurant Name"])
            ELSE rows[i][col]]]

\* the non-missing values of a column, in row order
RECURSIVE ColumnValues(_, _)
ColumnValues(rows, col) ==
    IF rows = <<>> THEN <<>>
    ELSE IF IsNa(Head(rows)[col]) THEN ColumnValues(Tail(rows), col)
    ELSE <<Head(rows)[col].s>> \o ColumnValues(Tail(rows), col)

\* Series.value_counts(): one entry per value, the most frequent first
ValueCounts(values) ==
    LET counted == Counter(values)
        keyed == [i \in 1..Len(counted) |->
                    [key |-> counted[i].key, count |-> counted[i].count,
                     sortkey |-> [num |-> counted[i].count, den |-> 1]]]
        sorted == SortDesc(keyed)
    IN [i \in 1..Len(sorted) |-> [key |-> sorted[i].key, count |-> sorted[i].count]]

\* chain_candidates[chain_candidates > 1]
PotentialChains(candidates) ==
    FilterSeq(candidates, {candidates[i] : i \in {j \in 1..Len(candidates) :
                                                    candidates[j].count > 1}})

\* the same filter with > in place of >=
FilterChains_strict(potential, minLocations, minNameSimilarity) ==
    FilterSeq(potential, {potential[i] : i \in {j \in 1..Len(potential) :
                                                  potential[j].count > minLocations}})

\* the same filter with = in place of >=
FilterChains_exact(potential, minLocations, minNameSimilarity) ==
    FilterSeq(potential, {potential[i] : i \in {j \in 1..Len(potential) :
                                                  potential[j].count = minLocations}})

\* a filter that lowers the bar by one location when the similarity score is
\* below 100 percent
FilterChains_similar(potential, minLocations, minNameSimilarity) ==
    FilterSeq(potential, {potential[i] : i \in {j \in 1..Len(potential) :
        potential[j].count >=
            (IF minNameSimilarity < 100 THEN minLocations - 1 ELSE minLocations)}})

\* the two sliders and potential_chains[potential_chains >= min_locations]:
\* min_name_similarity is read from its slider and used nowhere
FilterChains(potential, minLocations, minNameSimilarity) ==
    FilterSeq(potential, {potential[i] : i \in {j \in 1..Len(potential) :
                                                  potential[j].count >= minLocations}})

\* len(df_clean[df_clean['Restaurant Name Cleaned'] == chain_name])
ChainRestaurants(rows, chainName) ==
    FilterSeq(rows, {rows[i] : i \in {j \in 1..Len(rows) :
                        rows[j]["Restaurant Name Cleaned"] = Text(chainName)}})

\* the columns of the Chain Detector's table that are optional
optional_cols == {"Aggregate rating", "Votes", "City"}

\* a derived metric that is a quotient (a mean, a ratio): the value num/den
Frac(num, den) == [kind |-> "frac", num |-> num, den |-> den]

\* a standard deviation, held as its square num/den
Sqrt(num, den) == [kind |-> "sqrt", num |-> num, den |-> den]

\* the non-missing numbers of a column, in row order
RECURSIVE ColumnNumbers(_, _)
ColumnNumbers(rows, col) ==
    IF rows = <<>> THEN <<>>
    ELSE IF IsNa(Head(rows)[col]) THEN ColumnNumbers(Tail(rows), col)
    ELSE <<Head(rows)[col].n>> \o ColumnNumbers(Tail(rows), col)

SeqSet(s) == {s[i] : i \in 1..Len(s)}

\* Series.mean(): NaN when no value is left
SeriesMean(nums) ==
    IF nums = <<>> THEN NaN ELSE Frac(SumSeq(nums), Len(nums))

\* Series.std() (ddof = 1): NaN with fewer than two values
SeriesStd(nums) ==
    IF Len(nums) < 2 THEN NaN
    ELSE LET sq == [i \in 1..Len(nums) |-> nums[i] * nums[i]] IN
         Sqrt(Len(nums) * SumSeq(sq) - SumSeq(nums) * SumSeq(nums),
              Len(nums) * (Len(nums) - 1))

\* Series.min() / Series.max(): NaN when no value is left
SeriesMin(nums) ==
    IF nums = <<>> THEN NaN
    ELSE Num(CHOOSE m \in SeqSet(nums) : \A x \in SeqSet(nums) : m <= x)

SeriesMax(nums) ==
    IF nums = <<>> THEN NaN
    ELSE Num(CHOOSE m \in SeqSet(nums) : \A x \in SeqSet(nums) : x <= m)

\* max() - min()
SeriesRange(nums) ==
    IF nums = <<>> THEN NaN ELSE Num(SeriesMax(nums).n - SeriesMin(nums).n)

\* Series.nunique(): the number of distinct non-missing values
NUnique(rows, col) ==
    Cardinality({rows[i][col] : i \in {j \in 1..Len(rows) : ~IsNa(rows[j][col])}})

\* the keys of chain_info for a table with the given columns
ChainInfoColumns(cols) ==
    {"Chain Name", "Location Count", "Total Restaurants"}
    \cup (IF "Aggregate rating" \in cols
          THEN {"Average Rating", "Rating Std", "Min Rating", "Max Rating",
                "Rating Range"}
          ELSE {})
    \cup (IF "Votes" \in cols THEN {"Total Votes", "Average Votes"} ELSE {})
    \cup (IF "City" \in cols THEN {"Cities Covered", "City Diversity"} ELSE {})

\* chain_info of one confirmed chain
ChainInfo(rows, chain_name, location_count) ==
    LET chain_restaurants == ChainRestaurants(rows, chain_name)
        cols == DOMAIN rows[1]
        ratings == IF "Aggregate rating" \in cols
                   THEN ColumnNumbers(chain_restaurants, "Aggregate rating")
                   ELSE <<>>
        votes == IF "Votes" \in cols
                 THEN ColumnNumbers(chain_restaurants, "Votes") ELSE <<>>
        unique_cities == IF "City" \in cols
                         THEN NUnique(chain_restaurants, "City") ELSE 0
    IN [col \in ChainInfoColumns(cols) |->
          CASE col = "Chain Name" -> Text(chain_name)
            [] col = "Location Count" -> Num(location_count)
            [] col = "Total Restaurants" -> Num(Len(chain_restaurants))
            [] col = "Average Rating" -> SeriesMean(ratings)
            [] col = "Rating Std" -> SeriesStd(ratings)
            [] col = "Min Rating" -> SeriesMin(ratings)
            [] col = "Max Rating" -> SeriesMax(ratings)
            [] col = "Rating Range" -> SeriesRange(ratings)
            [] col = "Total Votes" -> Num(SumSeq(votes))
            [] col = "Average Votes" -> SeriesMean(votes)
            [] col = "Cities Covered" -> Num(unique_cities)
            [] col = "City Diversity" -> Frac(unique_cities, location_count)]

\* chains_data: one chain_info per confirmed chain
ChainsData(rows, confirmed) ==
    [i \in 1..Len(confirmed) |->
        ChainInfo(rows, confirmed[i].key, confirmed[i].count)]

\* the number of rows of the rankings of the Chain Detector
TopLocations == 15
TopChains == 10
\* the number of locations a chain needs for the consistency insight
ConsistencyMinLocations == 5

\* the columns of a frame (none for a frame without rows)
ColumnsOf(frame) == IF frame = <<>> THEN {} ELSE DOMAIN frame[1]

\* the value of a metric as a sort key num/den
MetricKey(v) ==
    IF v.kind = "num" THEN [num |-> v.n, den |-> 1]
    ELSE [num |-> v.num, den |-> v.den]

\* frame.dropna(subset=[col])
DropNaCol(frame, col) ==
    FilterSeq(frame, {frame[i] : i \in {j \in 1..Len(frame) : ~IsNa(frame[j][col])}})

\* the rows of a frame whose value in col is missing
OnlyNaCol(frame, col) ==
    FilterSeq(frame, {frame[i] : i \in {j \in 1..Len(frame) : IsNa(frame[j][col])}})

\* NLargest that takes the rows in frame order
NLargest_unsorted(frame, n, col) == Take(frame, n)

\* frame.nlargest(n, col): the n rows of largest value, largest first, rows
\* of equal value in frame order, rows of missing value last
NLargest(frame, n, col) ==
    LET present == DropNaCol(frame, col)
        keyed == [i \in 1..Len(present) |->
                    [row |-> present[i], sortkey |-> MetricKey(present[i][col])]]
        sorted == SortDesc(keyed)
    IN Take([i \in 1..Len(sorted) |-> sorted[i].row] \o OnlyNaCol(frame, col), n)

\* popularity_chains with its 'Votes per Location' column
WithVotesPerLocation(frame) ==
    [i \in 1..Len(frame) |->
        [col \in DOMAIN frame[i] \cup {"Votes per Location"} |->
            IF col = "Votes per Location"
            THEN Frac(frame[i]["Total Votes"].n, frame[i]["Location Count"].n)
            ELSE frame[i][col]]]

\* Series.idxmax(): the first row of largest value (0: every value is missing)
IdxMax(frame, col) ==
    LET present == {i \in 1..Len(frame) : ~IsNa(frame[i][col])} IN
    IF present = {} THEN 0
    ELSE CHOOSE i \in present :
            /\ \A j \in present :
                  ~KeyGreater(MetricKey(frame[j][col]), MetricKey(frame[i][col]))
            /\ \A j \in present :
                  j < i => KeyGreater(MetricKey(frame[i][col]), MetricKey(frame[j][col]))

\* Series.idxmin(): the first row of smallest value (0: every value is missing)
IdxMin(frame, col) ==
    LET present == {i \in 1..Len(frame) : ~IsNa(frame[i][col])} IN
    IF present = {} THEN 0
    ELSE CHOOSE i \in present :
            /\ \A j \in present :
                  ~KeyGreater(MetricKey(frame[i][col]), MetricKey(frame[j][col]))
            /\ \A j \in present :
                  j < i => KeyGreater(MetricKey(frame[j][col]), MetricKey(frame[i][col]))

\* frame[frame['Location Count'] >= 5].loc[label] raises KeyError when the
\* row of that label is not in the filtered frame (or the label is missing)
LocRaises(frame, label) ==
    IF label = 0 THEN TRUE
    ELSE frame[label]["Location Count"].n < ConsistencyMinLocations

\* values of the two sliders (min_value, max_value, step)
MinLocationsMin == 2
MinLocationsMax == 20
SimilarityMin == 70
SimilarityMax == 100
SimilarityStep == 5
\* the largest slider position the model moves min_locations to
MaxThreshold == 4

MinLocationsValues ==
    {n \in MinLocationsMin..MinLocationsMax : n <= MaxThreshold}
SimilarityValues ==
    {n \in SimilarityMin..SimilarityMax : (n - SimilarityMin) % SimilarityStep = 0}

ChainInitOn(tables) ==
    /\ pc = "c_start"
    /\ messages = {}
    /\ df = [columns |-> {}, rows |-> <<>>]
    /\ df_clean = <<>>
    /\ idx = 0
    /\ all_combinations = <<>>
    /\ combo_counter = <<>>
    /\ top_combinations = <<>>
    /\ combo_ratings = <<>>
    /\ valid_combos = <<>>
    /\ rating_data = <<>>
    /\ best_combo = <<>>
    /\ worst_combo = <<>>
    /\ chain_df \in tables
    /\ chain_df_clean = <<>>
    /\ chain_candidates = <<>>
    /\ potential_chains = <<>>
    /\ min_locations = DefaultMinLocations
    /\ min_name_similarity = DefaultSimilarity
    /\ confirmed_chains = <<>>
    /\ chains_df = <<>>
    /\ NoRankings
    /\ export_offered = FALSE
    /\ market_leader = <<>>
    /\ CuisineIdle

ChainInit == ChainInitOn(ChainTables)

\* ChainCheckColumns that ends without a message when the column is absent
ChainCheckColumns_silent ==
    /\ pc = "c_start"
    /\ \/ /\ "Restaurant Name" \in chain_df.columns
          /\ pc' = "c_clean"
       \/ /\ "Restaurant Name" \notin chain_df.columns
          /\ pc' = "done"
    /\ UNCHANGED <<messages, minerVars, chainVars, cuisineVars>>

\* required_cols check of the Chain Detector
ChainCheckColumns ==
    /\ pc = "c_start"
    /\ \/ /\ "Restaurant Name" \in chain_df.columns
          /\ pc' = "c_clean"
          /\ messages' = messages
       \/ /\ "Restaurant Name" \notin chain_df.columns
          /\ messages' = messages \cup {"error_missing_columns"}
          /\ pc' = "done"
    /\ UNCHANGED <<minerVars, chainVars, cuisineVars>>

\* cleaning: dropna, the cleaned names, the "Data Loss" metric (a division by
\* initial_count), the cleaned_count == 0 stop
ChainClean ==
    /\ pc = "c_clean"
    /\ \/ /\ StrAccessorRaises(chain_df.rows) \/ Len(chain_df.rows) = 0
          /\ ProcessingError
          /\ chain_df_clean' = DropNaName(chain_df.rows)
       \/ /\ ~StrAccessorRaises(chain_df.rows)
          /\ Len(chain_df.rows) # 0
          /\ chain_df_clean' = WithCleanedName(DropNaName(chain_df.rows))
          /\ IF Len(DropNaName(chain_df.rows)) = 0
             THEN /\ messages' = messages \cup {"error_no_valid_data"}
                  /\ pc' = "stopped"
             ELSE /\ messages' = messages
                  /\ pc' = "c_identify"
    /\ UNCHANGED <<cuisineVars, market_leader, minerVars, chain_df,
                   chain_candidates, potential_chains,
                   min_locations, min_name_similarity, confirmed_chains, chains_df,
                   rankVars, export_offered>>

\* chain identification: value_counts, the potential chains, the sliders,
\* the confirmed chains, the warning and stop when there is none
\* ChainIdentify without the len(confirmed_chains) == 0 stop
ChainIdentify_nostop ==
    /\ pc = "c_identify"
    /\ chain_candidates' =
          ValueCounts(ColumnValues(chain_df_clean, "Restaurant Name Cleaned"))
    /\ potential_chains' = PotentialChains(chain_candidates')
    /\ confirmed_chains' =
          FilterChains(potential_chains', min_locations, min_name_similarity)
    /\ messages' = messages
    /\ pc' = "c_table"
    /\ UNCHANGED <<cuisineVars, market_leader, minerVars, chain_df,
                   chain_df_clean, min_locations,
                   min_name_similarity, chains_df, rankVars, export_offered>>

ChainIdentify ==
    /\ pc = "c_identify"
    /\ chain_candidates' =
          ValueCounts(ColumnValues(chain_df_clean, "Restaurant Name Cleaned"))
    /\ potential_chains' = PotentialChains(chain_candidates')
    /\ confirmed_chains' =
          FilterChains(potential_chains', min_locations, min_name_similarity)
    /\ \/ /\ Len(confirmed_chains') = 0
          /\ messages' = messages \cup {"warning_no_chains"}
          /\ pc' = "c_nochains"
       \/ /\ Len(confirmed_chains') # 0
          /\ messages' = messages
          /\ pc' = "c_table"
    /\ UNCHANGED <<cuisineVars, market_leader, minerVars, chain_df,
                   chain_df_clean, min_locations,
                   min_name_similarity, chains_df, rankVars, export_offered>>

\* the chains dataframe
ChainBuildTable ==
    /\ pc = "c_table"
    /\ chains_df' = ChainsData(chain_df_clean, confirmed_chains)
    /\ pc' = "c_rankings"
    /\ UNCHANGED <<messages, cuisineVars, market_leader, minerVars, chain_df,
                   chain_df_clean, chain_candidates,
                   potential_chains, min_locations, min_name_similarity,
                   confirmed_chains, rankVars, export_offered>>

\* the rankings: by locations, then by rating, votes and city for the
\* optional columns the table has
ChainRankings ==
    /\ pc = "c_rankings"
    /\ top_chains_by_locations' = NLargest(chains_df, TopLocations, "Location Count")
    /\ top_rated_chains' =
          IF "Aggregate rating" \in ColumnsOf(chain_df_clean)
          THEN NLargest(DropNaCol(chains_df, "Average Rating"), TopChains,
                        "Average Rating")
          ELSE <<>>
    /\ popular_chains' =
          IF "Votes" \in ColumnsOf(chain_df_clean)
          THEN NLargest(DropNaCol(chains_df, "Total Votes"), TopChains, "Total Votes")
          ELSE <<>>
    /\ efficient_chains' =
          IF "Votes" \in ColumnsOf(chain_df_clean)
          THEN NLargest(WithVotesPerLocation(DropNaCol(chains_df, "Total Votes")),
                        TopChains, "Votes per Location")
          ELSE <<>>
    /\ widespread_chains' =
          IF "City" \in ColumnsOf(chain_df_clean)
          THEN NLargest(chains_df, TopChains, "Cities Covered")
          ELSE <<>>
    /\ diverse_chains' =
          IF "City" \in ColumnsOf(chain_df_clean)
          THEN NLargest(chains_df, TopChains, "City Diversity")
          ELSE <<>>
    /\ pc' = "c_insights"
    /\ UNCHANGED <<messages, cuisineVars, market_leader, minerVars, chain_df,
                   chain_df_clean, chain_candidates,
                   potential_chains, min_locations, min_name_similarity,
                   confirmed_chains, chains_df, export_offered>>

\* the consistency insight looks up the chains of smallest and largest
\* 'Rating Std' among the chains with at least 5 locations
ConsistencyRaises ==
    /\ "Rating Std" \in ColumnsOf(chains_df)
    /\ \/ LocRaises(chains_df, IdxMin(chains_df, "Rating Std"))
       \/ LocRaises(chains_df, IdxMax(chains_df, "Rating Std"))

\* the best rated insight looks up the chain of largest 'Average Rating'
BestRatedRaises ==
    /\ "Average Rating" \in ColumnsOf(chains_df)
    /\ IdxMax(chains_df, "Average Rating") = 0

\* the "Market Leader" box: the chain of most locations, and its location
\* count over len(confirmed_chains), times 100
MarketLeader(frame, confirmed) ==
    LET largest_chain == frame[IdxMax(frame, "Location Count")] IN
    [chain |-> largest_chain["Chain Name"].s,
     locations |-> largest_chain["Location Count"].n,
     percent |-> Frac(largest_chain["Location Count"].n * 100, Len(confirmed))]

\* the chain comparison and the "Strategic Insights"
ChainInsights ==
    /\ pc = "c_insights"
    /\ market_leader' = <<MarketLeader(chains_df, confirmed_chains)>>
    /\ \/ /\ ConsistencyRaises \/ BestRatedRaises
          /\ messages' = messages \cup {"error_processing_file"}
          /\ pc' = "c_failed"
       \/ /\ ~(ConsistencyRaises \/ BestRatedRaises)
          /\ messages' = messages
          /\ pc' = "c_export"
    /\ UNCHANGED <<minerVars, cuisineVars, chain_df, chain_df_clean,
                   chain_candidates, potential_chains, min_locations,
                   min_name_similarity, confirmed_chains, chains_df, rankVars,
                   export_offered>>

\* the "Export Chain Data" expander with the download button
ChainExport ==
    /\ pc = "c_export"
    /\ export_offered' = TRUE
    /\ pc' = "c_done"
    /\ UNCHANGED <<messages, cuisineVars, market_leader, minerVars, chain_df,
                   chain_df_clean, chain_candidates,
                   potential_chains, min_locations, min_name_similarity,
                   confirmed_chains, chains_df, rankVars>>

\* the sliders are on the page
SlidersShown ==
    pc \in {"c_nochains", "c_table", "c_rankings", "c_insights", "c_export",
            "c_done", "c_failed"}

\* a widget was moved: the script runs again from the top on the same upload
Rerun ==
    /\ pc' = "c_start"
    /\ messages' = {}
    /\ chain_df_clean' = <<>>
    /\ chain_candidates' = <<>>
    /\ potential_chains' = <<>>
    /\ confirmed_chains' = <<>>
    /\ chains_df' = <<>>
    /\ top_chains_by_locations' = <<>>
    /\ top_rated_chains' = <<>>
    /\ popular_chains' = <<>>
    /\ efficient_chains' = <<>>
    /\ widespread_chains' = <<>>
    /\ diverse_chains' = <<>>
    /\ export_offered' = FALSE
    /\ market_leader' = <<>>
    /\ UNCHANGED <<cuisineVars, minerVars, chain_df>>

MoveMinLocations(n) ==
    /\ SlidersShown
    /\ n # min_locations
    /\ min_locations' = n
    /\ UNCHANGED min_name_similarity
    /\ Rerun

MoveSimilarity(n) ==
    /\ SlidersShown
    /\ n # min_name_similarity
    /\ min_name_similarity' = n
    /\ UNCHANGED min_locations
    /\ Rerun

ChainNext ==
    \/ ChainCheckColumns
    \/ ChainClean
    \/ ChainIdentify
    \/ ChainBuildTable
    \/ ChainRankings
    \/ ChainInsights
    \/ ChainExport
    \/ \E n \in MinLocationsValues : MoveMinLocations(n)
    \/ \E n \in SimilarityValues : MoveSimilarity(n)

ChainSpec == ChainInit /\ [][ChainNext]_vars

(***************************************************************************)
(* Chain Detector: uploaded tables with the optional columns.              *)
(***************************************************************************)
\* a restaurant with a name, a rating (tenths), votes and a city
Restaurant(name, rating, votes, city) ==
    [col \in {"Restaurant Name"} \cup optional_cols |->
        CASE col = "Restaurant Name" -> name
          [] col = "Aggregate rating" -> rating
          [] col = "Votes" -> votes
          [] col = "City" -> city]

\* two restaurants of one name in two cities, a restaurant of another name,
\* and one of that name with no rating, votes or city
CoreRestaurants ==
    { Restaurant(Text(<<"a", "b">>), Num(20), Num(10), Text(<<"x">>)),
      Restaurant(Text(<<"a", "b">>), Num(40), Num(30), Text(<<"y">>)),
      Restaurant(Text(<<"a", "c">>), Num(50), Num(20), Text(<<"x">>)),
      Restaurant(Text(<<"a", "c">>), NaN, NaN, NaN) }

\* the restaurants of the first name
OneChainRestaurants ==
    {r \in CoreRestaurants : r["Restaurant Name"] = Text(<<"a", "b">>)}

\* a row with some of its columns
Project(row, cols) == [col \in cols |-> row[col]]

\* tables with any of the optional columns, with and without the name column
MetricsTables ==
    { [columns |-> cols,
       rows |-> [i \in 1..Len(r) |-> Project(r[i], cols)]] :
        r \in SeqsUpTo(CoreRestaurants, MaxChainRows)
              \cup SeqsUpTo(OneChainRestaurants, MaxOneChainRows),
        cols \in {{"Restaurant Name"} \cup c : c \in SUBSET optional_cols}
                 \cup {c \in SUBSET optional_cols : c # {}} }

MetricsInit == ChainInitOn(MetricsTables)
MetricsSpec == MetricsInit /\ [][ChainNext]_vars

(***************************************************************************)
(* Top 3 Cuisines: the script, step by step.                               *)
(***************************************************************************)
CuisineRow(name, cuisines) ==
    [col \in {"Restaurant Name", "Cuisines"} |->
        IF col = "Restaurant Name" THEN name ELSE cuisines]

\* restaurants of two names (and of no name) with one, two or three cuisines
\* (or none)
CuisineRows ==
    { CuisineRow(name, cuisines) :
        name \in {Text(<<"x">>), Text(<<"y">>), NaN},
        cuisines \in {Text(<<"a">>), Text(<<"a", ",", " ", "b">>),
                      Text(<<"b", ",", "c", ",", "a">>), NaN} }

\* tables with both columns, and tables that lack one of them
CuisineTables ==
    { [columns |-> cols,
       rows |-> [i \in 1..Len(r) |-> Project(r[i], cols)]] :
        r \in SeqsUpTo(CuisineRows, MaxCuisineRows),
        cols \in {{"Restaurant Name", "Cuisines"}} }
    \cup { [columns |-> cols, rows |-> <<Project(r, cols)>>] :
             r \in CuisineRows, cols \in {{"Restaurant Name"}, {"Cuisines"}} }

CuisineInit ==
    /\ ChainIdle
    /\ pc = "t_start"
    /\ messages = {}
    /\ df = [columns |-> {}, rows |-> <<>>]
    /\ df_clean = <<>>
    /\ idx = 0
    /\ all_combinations = <<>>
    /\ combo_counter = <<>>
    /\ top_combinations = <<>>
    /\ combo_ratings = <<>>
    /\ valid_combos = <<>>
    /\ rating_data = <<>>
    /\ best_combo = <<>>
    /\ worst_combo = <<>>
    /\ cuisine_df \in CuisineTables
    /\ cuisine_counts = <<>>
    /\ result = <<>>

\* df.dropna(subset=['Cuisines'])
DropNaCuisines(rows) ==
    FilterSeq(rows, {rows[i] : i \in {j \in 1..Len(rows) : ~IsNa(rows[j]["Cuisines"])}})

\* .str.split(','), explode, .str.strip(): one row per piece of the text
RECURSIVE Explode(_)
Explode(rows) ==
    IF rows = <<>> THEN <<>>
    ELSE LET parts == Split(Head(rows)["Cuisines"].s, ",") IN
         [i \in 1..Len(parts) |->
            [Head(rows) EXCEPT !["Cuisines"] = Text(Strip(parts[i]))]]
         \o Explode(Tail(rows))

\* an exception that no handler catches: the page shows the traceback
CuisineCrash ==
    /\ pc' = "t_crashed"
    /\ messages' = messages \cup {"exception"}

\* cleaning and processing
CuisineClean ==
    /\ pc = "t_start"
    /\ \/ /\ "Cuisines" \notin cuisine_df.columns
          /\ CuisineCrash
          /\ UNCHANGED cuisine_df
       \/ /\ "Cuisines" \in cuisine_df.columns
          /\ Len(cuisine_df.rows) > 0
          /\ DropNaCuisines(cuisine_df.rows) = <<>>
          /\ CuisineCrash
          /\ cuisine_df' = [cuisine_df EXCEPT !.rows = <<>>]
       \/ /\ "Cuisines" \in cuisine_df.columns
          /\ Len(cuisine_df.rows) = 0 \/ DropNaCuisines(cuisine_df.rows) # <<>>
          /\ cuisine_df' =
                [cuisine_df EXCEPT !.rows = Explode(DropNaCuisines(cuisine_df.rows))]
          /\ messages' = messages
          /\ pc' = "t_count"
    /\ UNCHANGED <<minerVars, chainVars, cuisine_counts, result>>

\* round(x, 2) of num/den, in hundredths (ties to the even hundredth)
Round2(num, den) ==
    LET q == (num * 100) \div den
        r == (num * 100) % den
    IN IF 2 * r > den \/ (2 * r = den /\ q % 2 = 1) THEN q + 1 ELSE q

\* (top3 / total_restaurants) * 100, rounded: a number of hundredths, or
\* inf for a division by zero
Percentage(count, total_restaurants) ==
    IF total_restaurants = 0 THEN [kind |-> "inf", hundredths |-> 0]
    ELSE [kind |-> "num", hundredths |-> Round2(count * 100, total_restaurants)]

\* the number of cuisines of the result table
TopCuisines == 3

\* the counts, the top 3, the percentages and the result table
CuisineCount ==
    /\ pc = "t_count"
    /\ cuisine_counts' = ValueCounts(ColumnValues(cuisine_df.rows, "Cuisines"))
    /\ \/ /\ "Restaurant Name" \notin cuisine_df.columns
          /\ CuisineCrash
          /\ UNCHANGED result
       \/ /\ "Restaurant Name" \in cuisine_df.columns
          /\ LET top3 == Take(cuisine_counts', TopCuisines)
                 total_restaurants == NUnique(cuisine_df.rows, "Restaurant Name")
             IN result' = [i \in 1..Len(top3) |->
                             [Cuisine |-> top3[i].key, Count |-> top3[i].count,
                              Percentage |-> Percentage(top3[i].count, total_restaurants)]]
          /\ messages' = messages
          /\ pc' = "t_show"
    /\ UNCHANGED <<minerVars, chainVars, cuisine_df>>

\* the table, the chart and the "Key Insights" (result.iloc[0..2])
CuisineInsights ==
    /\ pc = "t_show"
    /\ \/ /\ Len(result) < TopCuisines
          /\ CuisineCrash
       \/ /\ Len(result) >= TopCuisines
          /\ messages' = messages \cup {"success_completed"}
          /\ pc' = "t_done"
    /\ UNCHANGED <<minerVars, chainVars, cuisineVars>>

CuisineNext ==
    \/ CuisineClean
    \/ CuisineCount
    \/ CuisineInsights

CuisineSpec == CuisineInit /\ [][CuisineNext]_vars

(***************************************************************************)
(* The two scripts: an upload to either page.                              *)
(***************************************************************************)
AppInit == Init \/ MetricsInit
AppNext == Next \/ ChainNext
AppSpec == AppInit /\ [][AppNext]_vars

(***************************************************************************)
(* The two loops as functions of the cleaned table, and the tables of a    *)
(* loaded table.                                                           *)
(***************************************************************************)
\* lines 147-152 for all rows
RECURSIVE AllCombinations(_)
AllCombinations(rows) ==
    IF rows = <<>> THEN <<>>
    ELSE AllCombinations(SubSeq(rows, 1, Len(rows) - 1))
         \o RowCombos(rows[Len(rows)]["Cuisine_List"])

\* lines 229-243 for all rows
RECURSIVE RatingsPass(_)
RatingsPass(rows) ==
    IF rows = <<>> THEN <<>>
    ELSE RatingsAddAll(RatingsPass(SubSeq(rows, 1, Len(rows) - 1)),
                       RowCombos(rows[Len(rows)]["Cuisine_List"]),
                       rows[Len(rows)]["Aggregate rating"].n)

\* combo_counter and combo_ratings of a loaded table
MineTables(rawRows) ==
    LET clean == ApplyProcess(DropNa(rawRows)) IN
    [counter |-> Counter(AllCombinations(clean)), ratings |-> RatingsPass(clean)]

(***************************************************************************)
(* Properties of the Cuisine-Pair Miner.                                   *)
(***************************************************************************)
TagSet(list) == {list[i] : i \in 1..Len(list)}

\* tags of all cleaned restaurants (df_clean carries Cuisine_List)
AllTags == UNION {TagSet(df_clean[i]["Cuisine_List"]) : i \in 1..Len(df_clean)}

CountIn(counter, key) ==
    IF \E i \in 1..Len(counter) : counter[i].key = key
    THEN counter[CHOOSE i \in 1..Len(counter) : counter[i].key = key].count
    ELSE 0

\* number of cleaned restaurants that serve both a and b
RecordsWithBoth(a, b) ==
    Cardinality({i \in 1..Len(df_clean) :
                    {a, b} \subseteq TagSet(df_clean[i]["Cuisine_List"])})

\* the frequency pass has run (df_clean carries Cuisine_List, combo_counter is set)
Counted == pc \in {"rate", "insights"}

\* C1: after the pass the frequency of every pair of distinct tags equals the
\* number of records that contain both tags (each record raises it by
\* exactly 1), also for records that repeat a tag.
C1_FrequencyIsRecordCount ==
    Counted =>
        \A a \in AllTags : \A b \in AllTags :
            StrLess(a, b) => CountIn(combo_counter, <<a, b>>) = RecordsWithBoth(a, b)

\* C2: in every state of the pass no key of the frequency map or of the
\* rating map pairs a tag with itself.
C2_NoSelfPair ==
    pc \in {"count", "rate", "insights"} =>
        /\ \A i \in 1..Len(all_combinations) :
              all_combinations[i][1] # all_combinations[i][2]
        /\ \A i \in 1..Len(combo_counter) :
              combo_counter[i].key[1] # combo_counter[i].key[2]
        /\ \A i \in 1..Len(combo_ratings) : \A tag \in AllTags :
              combo_ratings[i].key # ComboLabel(<<tag, tag>>)

Perms(n) == {p \in [1..n -> 1..n] : \A i, j \in 1..n : p[i] = p[j] => i = j}

\* "[" + ", ".join(repr(item)) + "]"
RenderList(items) ==
    <<"[">> \o Join([i \in 1..Len(items) |-> <<"'">> \o items[i] \o <<"'">>], ",")
    \o <<"]">>

StartsWithBracket(s) == s # <<>> /\ Head(s) = "["

\* the raw values that list the tags of v in another order: the pieces of a
\* comma-separated text, the items of a list display
Reordered(v) ==
    IF v.kind # "str" THEN {v}
    ELSE IF StartsWithBracket(v.s)
    THEN LET r == LiteralEval(v.s) IN
         IF r.ok /\ \A i \in 1..Len(r.items) : r.items[i].kind = "str"
         THEN {Text(RenderList([i \in 1..Len(r.items) |-> r.items[p[i]].s])) :
                 p \in Perms(Len(r.items))}
         ELSE {v}
    ELSE LET parts == Split(v.s, ",") IN
         {Text(Join([i \in 1..Len(parts) |-> parts[p[i]]], ",")) :
             p \in Perms(Len(parts))}

WithCuisines(rows, i, v) ==
    [rows EXCEPT ![i] = [rows[i] EXCEPT !["Cuisines"] = v]]

MinedTables == [counter |-> combo_counter, ratings |-> combo_ratings]

\* C3 as stated: listing the tags of any record in another order leaves the
\* frequency table and the ratings table unchanged.
C3_AnyReorderingSameTables ==
    pc = "insights" =>
        \A i \in 1..Len(df.rows) : \A v \in Reordered(df.rows[i]["Cuisines"]) :
            MineTables(WithCuisines(df.rows, i, v)) = MinedTables

\* C3 amended: ... unless the reordering puts a piece that starts with "[" at
\* the head of a comma-separated text (the text is then read as a list
\* display, and as one tag when it does not parse).
C3_ReorderingSameTables ==
    pc = "insights" =>
        \A i \in 1..Len(df.rows) : \A v \in Reordered(df.rows[i]["Cuisines"]) :
            (StartsWithBracket(v.s) <=> StartsWithBracket(df.rows[i]["Cuisines"].s))
            => MineTables(WithCuisines(df.rows, i, v)) = MinedTables

\* a record with at least two tags has a reordering that changes its text
C3_Witness ==
    /\ pc = "insights"
    /\ Len(combo_counter) > 0
    /\ \E i \in 1..Len(df.rows) : \E v \in Reordered(df.rows[i]["Cuisines"]) :
          /\ v # df.rows[i]["Cuisines"]
          /\ Len(process_cuisines(v).list) >= 2
          /\ MineTables(WithCuisines(df.rows, i, v)) = MinedTables

\* C4: every key of the frequency map is in canonical order, and the map
\* never holds both (A, B) and (B, A).
C4_CanonicalKeys ==
    /\ \A i \in 1..Len(all_combinations) :
          StrLessEq(all_combinations[i][1], all_combinations[i][2])
    /\ \A i \in 1..Len(combo_counter) :
          /\ StrLessEq(combo_counter[i].key[1], combo_counter[i].key[2])
          /\ \A j \in 1..Len(combo_counter) :
                (combo_counter[j].key =
                    <<combo_counter[i].key[2], combo_counter[i].key[1]>>) => i = j

\* a record lists two tags in descending order and its pair is in the map
C4_Witness ==
    /\ pc = "rate"
    /\ \E i \in 1..Len(df_clean) :
          LET list == df_clean[i]["Cuisine_List"] IN
          /\ Len(list) >= 2
          /\ StrLess(list[2], list[1])
          /\ CountIn(combo_counter, <<list[2], list[1]>>) > 0

\* number of cleaned restaurants that contribute to a label: those with two
\* distinct tags whose pair has this label
SupportOf(label) ==
    Cardinality({i \in 1..Len(df_clean) :
        \E a \in TagSet(df_clean[i]["Cuisine_List"]) :
        \E b \in TagSet(df_clean[i]["Cuisine_List"]) :
            StrLess(a, b) /\ ComboLabel(<<a, b>>) = label})

\* C5: every row of the rating ranking has at least 5 contributing records,
\* no combination of frequency below 5 is in it, and every combination is
\* counted in the frequency ranking.
C5_MinimumSupport ==
    pc = "insights" =>
        /\ \A i \in 1..Len(rating_data) :
              /\ rating_data[i].NumberOfRestaurants >= MinSupport
              /\ SupportOf(rating_data[i].Combination) >= MinSupport
        /\ \A i \in 1..Len(combo_counter) :
              /\ combo_counter[i].count < MinSupport =>
                    \A j \in 1..Len(rating_data) :
                        rating_data[j].Combination # ComboLabel(combo_counter[i].key)
              /\ Len(combo_counter) <= TopN =>
                    \E j \in 1..Len(top_combinations) :
                        top_combinations[j] = combo_counter[i]

FirstSeen(key) ==
    CHOOSE i \in 1..Len(all_combinations) :
        /\ all_combinations[i] = key
        /\ \A j \in 1..(i - 1) : all_combinations[j] # key

FirstSeenLabel(label) ==
    CHOOSE i \in 1..Len(all_combinations) :
        /\ ComboLabel(all_combinations[i]) = label
        /\ \A j \in 1..(i - 1) : ComboLabel(all_combinations[j]) # label

\* x ranks before y: larger value, or equal value and seen first
RanksBefore(xval, xseen, yval, yseen) ==
    KeyGreater(xval, yval) \/ (KeyEqual(xval, yval) /\ xseen < yseen)

CountKey(c) == [num |-> c, den |-> 1]

\* C6: in both rankings, combinations of equal frequency (equal average
\* rating) appear in the order in which their keys were first seen, also at
\* the cut-off of the top 10.
C6_TiesFirstSeen ==
    pc = "insights" =>
        /\ \A i \in 1..Len(top_combinations) : \A j \in 1..Len(top_combinations) :
              i < j => RanksBefore(CountKey(top_combinations[i].count),
                                   FirstSeen(top_combinations[i].key),
                                   CountKey(top_combinations[j].count),
                                   FirstSeen(top_combinations[j].key))
        /\ \A i \in 1..Len(top_combinations) : \A k \in 1..Len(combo_counter) :
              (\A j \in 1..Len(top_combinations) :
                    top_combinations[j].key # combo_counter[k].key)
              => RanksBefore(CountKey(top_combinations[i].count),
                             FirstSeen(top_combinations[i].key),
                             CountKey(combo_counter[k].count),
                             FirstSeen(combo_counter[k].key))
        /\ \A i \in 1..Len(rating_data) : \A j \in 1..Len(rating_data) :
              i < j => RanksBefore(rating_data[i].AverageRating,
                                   FirstSeenLabel(rating_data[i].Combination),
                                   rating_data[j].AverageRating,
                                   FirstSeenLabel(rating_data[j].Combination))
        /\ \A i \in 1..Len(rating_data) : \A k \in 1..Len(valid_combos) :
              (\A j \in 1..Len(rating_data) :
                    rating_data[j].Combination # valid_combos[k].key)
              => RanksBefore(rating_data[i].AverageRating,
                             FirstSeenLabel(rating_data[i].Combination),
                             Mean(valid_combos[k].ratings),
                             FirstSeenLabel(valid_combos[k].key))

\* both rankings are cut at 10 rows, a combination left out ties with the
\* last row, and the rows of each ranking are not all equal
C6_Witness ==
    /\ pc = "insights"
    /\ Len(top_combinations) = TopN
    /\ \E k \in 1..Len(combo_counter) :
          /\ \A j \in 1..Len(top_combinations) :
                top_combinations[j].key # combo_counter[k].key
          /\ combo_counter[k].count = top_combinations[TopN].count
    /\ Len(rating_data) = TopN
    /\ \E k \in 1..Len(valid_combos) :
          /\ \A j \in 1..Len(rating_data) :
                rating_data[j].Combination # valid_combos[k].key
          /\ KeyEqual(Mean(valid_combos[k].ratings), rating_data[TopN].AverageRating)
    /\ \E i \in 1..(TopN - 1) :
          ~KeyEqual(rating_data[i].AverageRating, rating_data[i + 1].AverageRating)
    /\ \E i \in 1..(TopN - 1) :
          top_combinations[i].count # top_combinations[i + 1].count


(***************************************************************************)
(* Properties of the Chain Detector.                                       *)
(***************************************************************************)
\* the names are grouped (chain_candidates is set)
Grouped ==
    pc \in {"c_nochains", "c_table", "c_rankings", "c_insights", "c_export",
            "c_done", "c_failed"}

\* the script is past the chain table, or stopped before it for lack of chains
TableSettled ==
    pc \in {"c_nochains", "c_rankings", "c_insights", "c_export", "c_done",
            "c_failed"}

CleanedRows == 1..Len(chain_df_clean)

RawName(i) == chain_df_clean[i]["Restaurant Name"].s

\* the name after trim + title-case, computed from the raw name
NormalizedName(i) == Title(Strip(RawName(i)))

\* the name with surrounding whitespace and letter case removed
CaseFolded(s) == LET u == Strip(s) IN [k \in 1..Len(u) |-> ToLower(u[k])]

\* the groups (entries of chain_candidates) that hold cleaned record i
GroupsOf(i) ==
    {g \in 1..Len(chain_candidates) :
        Text(chain_candidates[g].key) = chain_df_clean[i]["Restaurant Name Cleaned"]}

GroupSize(name) == Cardinality({i \in CleanedRows : NormalizedName(i) = name})

\* C7: two cleaned records are in the same group if and only if their names
\* are equal after trim + title-case; names that differ only in case or in
\* surrounding whitespace are in one group.
C7_ExactNameGrouping ==
    Grouped =>
        /\ \A i \in CleanedRows : Cardinality(GroupsOf(i)) = 1
        /\ \A i \in CleanedRows : \A j \in CleanedRows :
              /\ (GroupsOf(i) = GroupsOf(j)) <=> (NormalizedName(i) = NormalizedName(j))
              /\ CaseFolded(RawName(i)) = CaseFolded(RawName(j))
                    => GroupsOf(i) = GroupsOf(j)
        /\ \A g \in 1..Len(chain_candidates) :
              chain_candidates[g].count =
                  Cardinality({i \in CleanedRows : g \in GroupsOf(i)})

\* two records with different raw names share a group, two others do not
C7_Witness ==
    /\ pc = "c_table"
    /\ \E i \in CleanedRows : \E j \in CleanedRows :
          RawName(i) # RawName(j) /\ GroupsOf(i) = GroupsOf(j)
    /\ \E i \in CleanedRows : \E j \in CleanedRows :
          /\ GroupsOf(i) # GroupsOf(j)
          /\ Len(RawName(i)) = Len(RawName(j))

RowsNamed(name) ==
    {r \in 1..Len(chains_df) : chains_df[r]["Chain Name"] = Text(name)}

\* C8: the chain table has exactly one row per normalized name whose group
\* size is at least the threshold, no other row, and each row's Location
\* Count and Total Restaurants are the number of cleaned records of that name.
C8_ChainTableRows ==
    TableSettled =>
        /\ min_locations \in MinLocationsMin..MinLocationsMax
        /\ \A i \in CleanedRows :
              IF GroupSize(NormalizedName(i)) >= min_locations
              THEN /\ Cardinality(RowsNamed(NormalizedName(i))) = 1
                   /\ \A r \in RowsNamed(NormalizedName(i)) :
                         /\ chains_df[r]["Location Count"] =
                               Num(GroupSize(NormalizedName(i)))
                         /\ chains_df[r]["Total Restaurants"] =
                               Num(GroupSize(NormalizedName(i)))
              ELSE RowsNamed(NormalizedName(i)) = {}
        /\ \A r \in 1..Len(chains_df) :
              \E i \in CleanedRows : chains_df[r]["Chain Name"] = Text(NormalizedName(i))

\* a chain with exactly the threshold's number of locations is in the table
\* and a name with fewer locations is not
C8_Witness ==
    /\ pc = "c_rankings"
    /\ \E r \in 1..Len(chains_df) : chains_df[r]["Location Count"] = Num(min_locations)
    /\ \E i \in CleanedRows : GroupSize(NormalizedName(i)) < min_locations

ChainNames(chains) == {chains[i].key : i \in 1..Len(chains)}

\* C9: for thresholds t1 <= t2 the chains confirmed with t2 are among those
\* confirmed with t1; the confirmed chains of the run lie between those of
\* every larger and every smaller threshold.
C9_ThresholdMonotone ==
    Grouped =>
        \A t1 \in MinLocationsMin..MinLocationsMax :
        \A t2 \in MinLocationsMin..MinLocationsMax :
            t1 <= t2 =>
                /\ ChainNames(FilterChains(potential_chains, t2, min_name_similarity))
                      \subseteq
                   ChainNames(FilterChains(potential_chains, t1, min_name_similarity))
                /\ t1 = min_locations =>
                      ChainNames(FilterChains(potential_chains, t2, min_name_similarity))
                         \subseteq ChainNames(confirmed_chains)
                /\ t2 = min_locations =>
                      ChainNames(confirmed_chains) \subseteq
                      ChainNames(FilterChains(potential_chains, t1, min_name_similarity))

\* a larger threshold confirms fewer chains than the run's, a smaller one more
C9_Witness ==
    /\ Grouped
    /\ \E t2 \in MinLocationsMin..MinLocationsMax :
          /\ t2 > min_locations
          /\ ChainNames(FilterChains(potential_chains, t2, min_name_similarity))
                # ChainNames(confirmed_chains)
    /\ \E t1 \in MinLocationsMin..MinLocationsMax :
          /\ t1 < min_locations
          /\ ChainNames(FilterChains(potential_chains, t1, min_name_similarity))
                # ChainNames(confirmed_chains)

\* C10: with the same records and the same minimum-locations threshold, every
\* value of the similarity slider gives the confirmed chains and the chain
\* table of the run.
C10_SimilarityIgnored ==
    TableSettled =>
        \A s \in SimilarityValues :
            /\ FilterChains(potential_chains, min_locations, s) = confirmed_chains
            /\ ChainsData(chain_df_clean,
                          FilterChains(potential_chains, min_locations, s)) = chains_df

\* a run with the similarity slider moved off its default builds a chain table
\* that leaves out a potential chain
C10_Witness ==
    /\ pc = "c_rankings"
    /\ min_name_similarity # DefaultSimilarity
    /\ Len(chains_df) > 0
    /\ Len(potential_chains) > Len(confirmed_chains)


(***************************************************************************)
(* Properties of the Tag Normalizer and of the miner's error handling.     *)
(***************************************************************************)
\* the raw text is read as a list display
ReadAsList(v) == v.kind = "str" /\ StartsWithBracket(v.s)

\* the list display does not parse, or parses to an element that is no text
ParseFails(v) ==
    /\ ReadAsList(v)
    /\ LET r == LiteralEval(v.s) IN
       ~(r.ok /\ \A i \in 1..Len(r.items) : r.items[i].kind = "str")

\* C12: the Tag Normalizer lets no exception escape, whatever the raw value
\* of a cleaned record is, and a failed parse gives the single tag made of
\* the whole value, trimmed and title-cased.
C12_NormalizerNeverRaises ==
    pc = "process" =>
        \A i \in 1..Len(df_clean) :
            LET v == df_clean[i]["Cuisines"] IN
            /\ ~process_cuisines(v).raised
            /\ ParseFails(v) => process_cuisines(v).list = <<Title(Strip(v.s))>>

\* the raw pieces of a text: the items of its list display, the whole text
\* when the display does not parse, its comma-separated pieces otherwise
RawPieces(v) ==
    IF ParseFails(v) THEN <<v.s>>
    ELSE IF ReadAsList(v)
    THEN LET r == LiteralEval(v.s) IN [i \in 1..Len(r.items) |-> r.items[i].s]
    ELSE Split(v.s, ",")

\* the Cuisine_List column is set
Normalized == pc \in {"count", "rate", "insights"}

\* Process has just run
JustNormalized == pc = "count" /\ idx = 1

TextRows == {i \in 1..Len(df.rows) : df.rows[i]["Cuisines"].kind = "str"}

RawTags(i) == TagSet(process_cuisines(df.rows[i]["Cuisines"]).list)

\* number of loaded records, of any rating, that serve both a and b
RawRecordsWithBoth(a, b) ==
    Cardinality({i \in 1..Len(df.rows) : {a, b} \subseteq RawTags(i)})

\* C14: a record whose rating is missing still counts in the frequency of
\* each combination it belongs to (the frequency of a pair is at least the
\* number of loaded records that serve both tags), and the other records
\* are aggregated.
C14_BadRatingStillCounted ==
    Counted =>
        \A i \in 1..Len(df.rows) :
            IsNa(df.rows[i]["Aggregate rating"]) =>
                \A a \in RawTags(i) : \A b \in RawTags(i) :
                    StrLess(a, b) =>
                        CountIn(combo_counter, <<a, b>>) >= RawRecordsWithBoth(a, b)

\* the required columns are there and no row has both values
NoUsableRow == required_cols \subseteq df.columns /\ DropNa(df.rows) = <<>>

\* C16: a table with the required columns and no usable row, a table of zero
\* rows included, ends with the 'no valid data' outcome and nothing else,
\* and runs no aggregation.
C16_NoValidDataOutcome ==
    (pc \in {"done", "stopped"} /\ NoUsableRow) =>
        /\ pc = "stopped"
        /\ messages = {"error_no_valid_data"}
        /\ all_combinations = <<>> /\ combo_ratings = <<>>

\* the cleaned records carry Cuisine_List and Num_Cuisines
Listed == \A i \in 1..Len(df_clean) : "Num_Cuisines" \in DOMAIN df_clean[i]

\* no cleaned record has two tags or more
NoPairRecord == \A i \in 1..Len(df_clean) : df_clean[i]["Num_Cuisines"] < 2

\* C17: when no record has at least 2 tags, both rankings are empty, each is
\* reported with its info box, and the run ends without the error outcome
\* whenever the cleaned table has a record (the empty pair tables cause no
\* error).
C17_NoPairsIsInfo ==
    /\ (pc = "insights" /\ NoPairRecord) =>
          /\ top_combinations = <<>> /\ rating_data = <<>>
          /\ combo_counter = <<>> /\ valid_combos = <<>>
          /\ messages = {"info_no_combinations", "info_not_enough_rating_data"}
    /\ (pc = "done" /\ Len(df_clean) > 0 /\ Listed /\ NoPairRecord) =>
          messages = {"info_no_combinations", "info_not_enough_rating_data"}

\* a run over single-cuisine restaurants ends with the two info boxes
C17_Witness ==
    /\ pc = "done"
    /\ Len(df_clean) > 1
    /\ Listed
    /\ NoPairRecord
    /\ messages = {"info_no_combinations", "info_not_enough_rating_data"}

\* the cleaned records that serve both tags of a key
Contributors(key) ==
    {i \in 1..Len(df_clean) : {key[1], key[2]} \subseteq TagSet(df_clean[i]["Cuisine_List"])}

RECURSIVE SumOver(_, _)
SumOver(f, S) ==
    IF S = {} THEN 0
    ELSE LET x == CHOOSE y \in S : TRUE IN f[x] + SumOver(f, S \ {x})

\* C19: the average rating of every key of two distinct tags in the rating
\* ranking is the sum of the ratings of the records that serve both tags
\* divided by their number, which is the key's frequency; a record with a
\* single tag adds to no combination.
C19_AverageOfContributors ==
    pc = "insights" =>
        /\ \A k \in 1..Len(combo_counter) : \A r \in 1..Len(rating_data) :
              LET key == combo_counter[k].key IN
              (key[1] # key[2] /\ rating_data[r].Combination = ComboLabel(key)) =>
                  /\ combo_counter[k].count = Cardinality(Contributors(key))
                  /\ KeyEqual(rating_data[r].AverageRating,
                              [num |-> SumOver([i \in 1..Len(df_clean) |->
                                                  df_clean[i]["Aggregate rating"].n],
                                               Contributors(key)),
                               den |-> Cardinality(Contributors(key))])
        /\ \A i \in 1..Len(df_clean) :
              df_clean[i]["Num_Cuisines"] = 1 =>
                  RowCombos(df_clean[i]["Cuisine_List"]) = <<>>

(***************************************************************************)
(* Properties of the chain metrics, the rankings and the column checks.    *)
(***************************************************************************)
\* the cleaned records of the chain of row r of the chain table
LocationsOf(r) == ChainRestaurants(chain_df_clean, chains_df[r]["Chain Name"].s)

\* the locations of row r are in pairwise distinct cities
DistinctCities(r) ==
    \A i \in 1..Len(LocationsOf(r)) : \A j \in 1..Len(LocationsOf(r)) :
        i # j => LocationsOf(r)[i]["City"] # LocationsOf(r)[j]["City"]

\* C11: the city diversity of every row of the chain table is greater than
\* 0 and at most 1, and is 1 exactly when the locations of the chain are in
\* pairwise distinct cities, whatever the City column holds.
C11_CityDiversityRange ==
    (TableSettled /\ "City Diversity" \in ColumnsOf(chains_df)) =>
        \A r \in 1..Len(chains_df) :
            LET d == chains_df[r]["City Diversity"] IN
            /\ d.num > 0
            /\ d.num <= d.den
            /\ (d.num = d.den) <=> DistinctCities(r)

\* an upload to the Cuisine-Pair Miner / to the Chain Detector
MinerMode == chain_df = [columns |-> {}, rows |-> <<>>]
ChainMode == df = [columns |-> {}, rows |-> <<>>]

\* nothing is cleaned, aggregated, derived or ranked
NothingComputed ==
    /\ df_clean = <<>> /\ all_combinations = <<>> /\ combo_counter = <<>>
    /\ top_combinations = <<>> /\ combo_ratings = <<>> /\ valid_combos = <<>>
    /\ rating_data = <<>> /\ best_combo = <<>> /\ worst_combo = <<>>
    /\ chain_df_clean = <<>> /\ chain_candidates = <<>> /\ potential_chains = <<>>
    /\ confirmed_chains = <<>> /\ chains_df = <<>>
    /\ NoRankings /\ export_offered = FALSE

\* C15: a table without a required column (Cuisines or Aggregate rating for
\* the miner, Restaurant Name for the Chain Detector) ends with the
\* missing-column error and nothing else: no cleaning, no aggregation, no
\* derived table or ranking.
C15_MissingColumnError ==
    /\ (MinerMode /\ ~(required_cols \subseteq df.columns)) =>
          /\ pc \in {"start", "done"}
          /\ NothingComputed
          /\ pc = "done" => messages = {"error_missing_columns"}
    /\ (ChainMode /\ "Restaurant Name" \notin chain_df.columns) =>
          /\ pc \in {"c_start", "done"}
          /\ NothingComputed
          /\ pc = "done" => messages = {"error_missing_columns"}

\* the Chain Detector has run on a table with rows and optional columns but
\* without the name column
C15_Witness ==
    /\ ChainMode
    /\ pc = "done"
    /\ "Restaurant Name" \notin chain_df.columns
    /\ optional_cols \subseteq chain_df.columns
    /\ Len(chain_df.rows) > 1
    /\ messages = {"error_missing_columns"}

\* C18: the columns of the chain table hold the metrics of exactly the
\* optional columns the upload has, and the run does not end with the error
\* outcome, for every subset of the optional columns.
C18_OptionalColumns ==
    /\ (TableSettled /\ chains_df # <<>>) =>
          /\ {"Average Rating", "Rating Std", "Min Rating", "Max Rating",
              "Rating Range"} \cap ColumnsOf(chains_df) =
                 (IF "Aggregate rating" \in chain_df.columns
                  THEN {"Average Rating", "Rating Std", "Min Rating", "Max Rating",
                        "Rating Range"}
                  ELSE {})
          /\ {"Total Votes", "Average Votes"} \cap ColumnsOf(chains_df) =
                 (IF "Votes" \in chain_df.columns
                  THEN {"Total Votes", "Average Votes"} ELSE {})
          /\ {"Cities Covered", "City Diversity"} \cap ColumnsOf(chains_df) =
                 (IF "City" \in chain_df.columns
                  THEN {"Cities Covered", "City Diversity"} ELSE {})
    /\ SlidersShown => "error_processing_file" \notin messages

\* the rankings are built
Ranked == pc \in {"c_insights", "c_export", "c_done", "c_failed"}

\* the rows of a ranking are in non-increasing order of the metric
NonIncreasing(ranking, col) ==
    \A i \in 1..Len(ranking) : \A j \in 1..Len(ranking) :
        i < j => ~KeyGreater(MetricKey(ranking[j][col]), MetricKey(ranking[i][col]))

\* every row of a ranking is the row of a confirmed chain in the chain table
OnlyConfirmed(ranking) ==
    \A i \in 1..Len(ranking) :
        /\ ranking[i]["Chain Name"].s \in ChainNames(confirmed_chains)
        /\ \E r \in 1..Len(chains_df) :
              \A col \in ColumnsOf(chains_df) : ranking[i][col] = chains_df[r][col]

\* the number of rows of a ranking of limit n over the chains that have the
\* metric
RankedRows(n, col) ==
    LET have == Cardinality({r \in 1..Len(chains_df) :
                                col \in ColumnsOf(chains_df) /\ ~IsNa(chains_df[r][col])})
    IN IF have < n THEN have ELSE n

\* C20: each ranking lists confirmed chains in non-increasing order of its
\* metric; the average-rating ranking has only chains with an average
\* rating; votes per location is total votes divided by location count.
C20_RankingsOrdered ==
    Ranked =>
        /\ NonIncreasing(top_chains_by_locations, "Location Count")
        /\ NonIncreasing(top_rated_chains, "Average Rating")
        /\ NonIncreasing(popular_chains, "Total Votes")
        /\ NonIncreasing(efficient_chains, "Votes per Location")
        /\ NonIncreasing(widespread_chains, "Cities Covered")
        /\ NonIncreasing(diverse_chains, "City Diversity")
        /\ OnlyConfirmed(top_chains_by_locations) /\ OnlyConfirmed(top_rated_chains)
        /\ OnlyConfirmed(popular_chains) /\ OnlyConfirmed(efficient_chains)
        /\ OnlyConfirmed(widespread_chains) /\ OnlyConfirmed(diverse_chains)
        /\ Len(top_chains_by_locations) = RankedRows(TopLocations, "Location Count")
        /\ Len(top_rated_chains) = RankedRows(TopChains, "Average Rating")
        /\ Len(popular_chains) = RankedRows(TopChains, "Total Votes")
        /\ Len(efficient_chains) = RankedRows(TopChains, "Total Votes")
        /\ Len(widespread_chains) = RankedRows(TopChains, "Cities Covered")
        /\ Len(diverse_chains) = RankedRows(TopChains, "City Diversity")
        /\ \A i \in 1..Len(top_rated_chains) :
              ~IsNa(top_rated_chains[i]["Average Rating"])
        /\ \A i \in 1..Len(efficient_chains) :
              LET v == efficient_chains[i]["Votes per Location"] IN
              v.num * efficient_chains[i]["Location Count"].n
                 = efficient_chains[i]["Total Votes"].n * v.den

\* two chains whose order in the rating ranking is not their order in the
\* chain table, with all six rankings built
C20_Witness ==
    /\ pc = "c_insights"
    /\ Len(chains_df) = 2
    /\ Len(top_rated_chains) = 2
    /\ top_rated_chains[1]["Chain Name"] = chains_df[2]["Chain Name"]
    /\ Len(efficient_chains) = 2 /\ Len(diverse_chains) = 2
    /\ KeyGreater(MetricKey(diverse_chains[1]["City Diversity"]),
                  MetricKey(diverse_chains[2]["City Diversity"]))


(***************************************************************************)
(* The two rankings of the Cuisine-Pair Miner.                             *)
(***************************************************************************)
Smaller(a, b) == IF a < b THEN a ELSE b

\* the rows of a ranking are distinct entries of a map
DistinctRows(ranking, keyOf) ==
    \A i \in 1..Len(ranking) : \A j \in 1..Len(ranking) :
        i # j => keyOf[i] # keyOf[j]

\* C21: the frequency ranking has at most 10 rows (tag1, tag2, frequency),
\* in non-increasing frequency, and holds the 10 most frequent keys of the
\* frequency map; the rating ranking has at most 10 rows (label, average
\* rating, count), in non-increasing average rating, and holds the 10 best
\* rated keys among those with at least 5 ratings.
C21_RankingsTopTen ==
    pc \in {"rate", "insights", "done"} /\ ("error_missing_columns" \notin messages) =>
        /\ Len(top_combinations) = Smaller(TopN, Len(combo_counter))
        /\ \A i \in 1..Len(top_combinations) :
              /\ Len(top_combinations[i].key) = 2
              /\ \E k \in 1..Len(combo_counter) :
                    /\ combo_counter[k].key = top_combinations[i].key
                    /\ combo_counter[k].count = top_combinations[i].count
        /\ DistinctRows(top_combinations,
                        [i \in 1..Len(top_combinations) |-> top_combinations[i].key])
        /\ \A i \in 1..(Len(top_combinations) - 1) :
              top_combinations[i].count >= top_combinations[i + 1].count
        /\ \A k \in 1..Len(combo_counter) :
              (\A i \in 1..Len(top_combinations) :
                    top_combinations[i].key # combo_counter[k].key)
              => combo_counter[k].count <= top_combinations[TopN].count
        /\ pc \in {"insights", "done"} =>
              /\ Len(rating_data) = Smaller(TopN, Len(valid_combos))
              /\ \A k \in 1..Len(valid_combos) : valid_combos[k].count >= MinSupport
              /\ \A k \in 1..Len(combo_ratings) :
                    combo_ratings[k].count >= MinSupport
                    => \E j \in 1..Len(valid_combos) : valid_combos[j] = combo_ratings[k]
              /\ \A i \in 1..Len(rating_data) :
                    \E k \in 1..Len(valid_combos) :
                        /\ valid_combos[k].key = rating_data[i].Combination
                        /\ valid_combos[k].count = rating_data[i].NumberOfRestaurants
                        /\ Mean(valid_combos[k].ratings) = rating_data[i].AverageRating
              /\ DistinctRows(rating_data,
                              [i \in 1..Len(rating_data) |-> rating_data[i].Combination])
              /\ \A i \in 1..(Len(rating_data) - 1) :
                    ~KeyGreater(rating_data[i + 1].AverageRating,
                                rating_data[i].AverageRating)
              /\ \A k \in 1..Len(valid_combos) :
                    (\A i \in 1..Len(rating_data) :
                          rating_data[i].Combination # valid_combos[k].key)
                    => ~KeyGreater(Mean(valid_combos[k].ratings),
                                   rating_data[TopN].AverageRating)

\* fifteen combinations were counted and rated, ten are in each ranking, and
\* the combination seen last is in the first row of both
C21_Witness ==
    /\ pc = "done"
    /\ Len(combo_counter) > TopN
    /\ Len(top_combinations) = TopN
    /\ top_combinations[1].key = combo_counter[Len(combo_counter)].key
    /\ top_combinations[1].count > top_combinations[TopN].count
    /\ Len(valid_combos) > TopN
    /\ Len(rating_data) = TopN
    /\ rating_data[1].Combination = valid_combos[Len(valid_combos)].key
    /\ KeyGreater(rating_data[1].AverageRating, rating_data[TopN].AverageRating)


(***************************************************************************)
(* Records without a tag.                                                  *)
(***************************************************************************)
\* the rows of the upload that survive dropna and have no tag
TaglessRows ==
    {i \in 1..Len(df.rows) :
        /\ ~IsNa(df.rows[i]["Cuisines"])
        /\ ~IsNa(df.rows[i]["Aggregate rating"])
        /\ process_cuisines(df.rows[i]["Cuisines"]).list = <<>>}

\* C22: a missing value gives the empty tag sequence, and every record that
\* reaches the overview metrics and the pair enumeration has at least one
\* tag: the records without a tag are removed first.
C22_NoTaglessRecord ==
    /\ process_cuisines(NaN) = [raised |-> FALSE, list |-> <<>>]
    /\ pc \in {"count", "rate", "insights"} =>
          /\ \A i \in 1..Len(df_clean) :
                /\ Len(df_clean[i]["Cuisine_List"]) >= 1
                /\ df_clean[i]["Num_Cuisines"] = Len(df_clean[i]["Cuisine_List"])
          /\ Len(df_clean) = Len(DropNa(df.rows)) - Cardinality(TaglessRows)

\* a record without a tag was removed, another record was enumerated
C22_Witness ==
    /\ pc = "rate"
    /\ TaglessRows # {}
    /\ Len(df_clean) >= 1
    /\ Len(df_clean) < Len(DropNa(df.rows))


(***************************************************************************)
(* The loaded table.                                                       *)
(***************************************************************************)
\* C23: no step of the Cuisine-Pair Miner or of the Chain Detector changes
\* the loaded table: the derived columns and the row filters go to the
\* cleaned copy, the rows and columns of the upload stay as they were.
C23_LoadedTableUnchanged ==
    [][df' = df /\ chain_df' = chain_df]_vars

\* the run is over, the cleaned copy has the derived columns and fewer rows
\* than the upload, and the upload has its two columns and all its rows
C23_Witness ==
    /\ pc = "done"
    /\ combo_ratings # <<>>
    /\ Len(df_clean) >= 1
    /\ Len(df_clean) < Len(df.rows)
    /\ \A i \in 1..Len(df_clean) :
          DOMAIN df_clean[i] = required_cols \cup {"Cuisine_List", "Num_Cuisines"}
    /\ df.columns = required_cols
    /\ \A i \in 1..Len(df.rows) : DOMAIN df.rows[i] = required_cols


(***************************************************************************)
(* The insights and the end of a Chain Detector run.                       *)
(***************************************************************************)
\* C24: whenever at least one chain is confirmed, the run reaches the export
\* step and offers the chain table, whatever the chain sizes and ratings:
\* the consistency insight does not fail for chains of fewer than 5
\* locations.
C24_ReachesExport ==
    /\ pc # "c_failed"
    /\ (pc = "c_done" /\ confirmed_chains # <<>>) =>
          export_offered /\ "error_processing_file" \notin messages

\* confirmed_chains.sum(): the locations of all confirmed chains
TotalChainRestaurants ==
    SumSeq([i \in 1..Len(confirmed_chains) |-> confirmed_chains[i].count])

\* C27: the percentage of the "Market Leader" insight is the location count
\* of the largest chain over the locations of all confirmed chains, times
\* 100, and never above 100.
C27_MarketLeaderShare ==
    market_leader # <<>> =>
        LET shown == market_leader[1] IN
        /\ \A i \in 1..Len(confirmed_chains) :
              confirmed_chains[i].count <= shown.locations
        /\ shown.percent.num * TotalChainRestaurants
              = shown.locations * 100 * shown.percent.den
        /\ shown.percent.num <= 100 * shown.percent.den

\* no name occurs min_locations times
NoGroupReachesThreshold ==
    \A i \in 1..Len(chain_candidates) : chain_candidates[i].count < min_locations

\* C29: when no group reaches the minimum-locations threshold, the run shows
\* the 'no chains found' warning and halts before the chain table: no chain
\* row, no ranking, no insight, no export, and neither the missing-column
\* error nor the processing error.
C29_NoChainsWarning ==
    /\ (Grouped /\ NoGroupReachesThreshold) =>
          /\ pc = "c_nochains"
          /\ messages = {"warning_no_chains"}
          /\ confirmed_chains = <<>>
          /\ chains_df = <<>>
          /\ NoRankings
          /\ market_leader = <<>>
          /\ export_offered = FALSE
    /\ pc = "c_nochains" => NoGroupReachesThreshold

\* the warning is shown for a table in which a name occurs twice, after the
\* threshold was raised from 2 to 3
C29_Witness ==
    /\ pc = "c_nochains"
    /\ messages = {"warning_no_chains"}
    /\ potential_chains # <<>>
    /\ min_locations = 3
    /\ \E i \in 1..Len(chain_candidates) : chain_candidates[i].count = 2


(***************************************************************************)
(* The "Key Insights" of the Cuisine-Pair Miner.                           *)
(***************************************************************************)
\* the "Key Insights" section was reached
InsightsShown == pc = "done" /\ Len(df_clean) # 0

\* C28: when some combination has the minimum support, 'Highest Rated
\* Combination' names the combination of the first row of the rating
\* ranking, and 'Lowest Rated Combination' has the smallest average of the
\* supported combinations, ties included.
C28_BestAndWorstCombination ==
    /\ (InsightsShown /\ valid_combos # <<>>) =>
          /\ Len(best_combo) = 1
          /\ Len(worst_combo) = 1
          /\ best_combo[1].key = rating_data[1].Combination
          /\ Mean(best_combo[1].ratings) = rating_data[1].AverageRating
          /\ \E k \in 1..Len(valid_combos) : valid_combos[k] = worst_combo[1]
          /\ \A k \in 1..Len(valid_combos) :
                ~KeyGreater(Mean(worst_combo[1].ratings), Mean(valid_combos[k].ratings))
    /\ (InsightsShown /\ valid_combos = <<>>) =>
          best_combo = <<>> /\ worst_combo = <<>>

\* several supported combinations share the largest average, another one has
\* a smaller average, and the insights were shown
C28_Witness ==
    /\ InsightsShown
    /\ Len(best_combo) = 1
    /\ \E k \in 1..Len(valid_combos) :
          /\ valid_combos[k].key # best_combo[1].key
          /\ KeyEqual(Mean(valid_combos[k].ratings), Mean(best_combo[1].ratings))
    /\ KeyGreater(Mean(best_combo[1].ratings), Mean(worst_combo[1].ratings))


(***************************************************************************)
(* Tags and separators.                                                    *)
(***************************************************************************)
\* both loops are over
Tallied == pc \in {"insights", "done"} /\ "error_missing_columns" \notin messages

\* C25: the two tallies agree: for every pair (a, b) of the frequency
\* counter, the count and the number of ratings collected under the label
\* 'a + b' both equal the frequency of the pair, also for tags that contain
\* ' + ' themselves.
C25_TalliesAgree ==
    Tallied =>
        \A k \in 1..Len(combo_counter) :
            \E j \in 1..Len(combo_ratings) :
                /\ combo_ratings[j].key = ComboLabel(combo_counter[k].key)
                /\ combo_ratings[j].count = combo_counter[k].count
                /\ Len(combo_ratings[j].ratings) = combo_counter[k].count

\* C26: no tag of a normalized record is the empty string, also for a raw
\* value with a trailing, leading or doubled comma, and no combination key
\* has the empty string as a member.
C26_NoEmptyTag ==
    /\ pc \in {"count", "rate", "insights"} =>
          \A i \in 1..Len(df_clean) :
              \A t \in 1..Len(df_clean[i]["Cuisine_List"]) :
                  df_clean[i]["Cuisine_List"][t] # <<>>
    /\ \A k \in 1..Len(combo_counter) :
          combo_counter[k].key[1] # <<>> /\ combo_counter[k].key[2] # <<>>


(***************************************************************************)
(* Top 3 Cuisines.                                                         *)
(***************************************************************************)
\* C30: for each of the 3 most common cuisines, the reported percentage is
\* a share of the restaurants, so it lies between 0 and 100 for every
\* dataset, also when several restaurants share one name.
C30_PercentageIsShare ==
    \A i \in 1..Len(result) :
        /\ result[i].Percentage.kind = "num"
        /\ result[i].Percentage.hundredths >= 0
        /\ result[i].Percentage.hundredths <= 100 * 100

=============================================================================
